---- MODULE Spec2Model ----
(***************************************************************************)
(* A model of the option resolution of ICU4X::DateTimeFormat.new, of the   *)
(* PartsCollector that DateTimeFormat#format_to_parts renders into, and of *)
(* the digit pipeline of ICU4X::NumberFormat (ext/icu4x/src/               *)
(* datetime_format.rs, parts_collector.rs, number_format.rs, helpers.rs).  *)
(*                                                                         *)
(* Text is a sequence of one-character strings.  The renderer of the icu   *)
(* crate is external: it is modelled as an arbitrary caller of write_str   *)
(* and with_part, one step per call or return.  The Decimal of the         *)
(* fixed_decimal crate is modelled by its fields and the documented effect *)
(* of each method number_format.rs calls on it.                            *)
(*                                                                         *)
(* Further parts follow several DateTimeFormat.new calls and several       *)
(* callers of format / format_to_parts, each with its own locals, and the  *)
(* operand ICU4X::PluralRules#select hands to the plural rules             *)
(* (plural_rules.rs); category_for stands for the cardinal rules of en.    *)
(***************************************************************************)
EXTENDS Integers, Sequences, FiniteSets, TLC

VARIABLES
    pc,              \* position of the format_to_parts call
    parts,           \* PartsCollector.parts
    current_buffer,  \* PartsCollector.current_buffer
    part_stack,      \* PartsCollector.part_stack
    calls,           \* the `part` argument of every with_part call not yet returned
    failed,          \* a writing function has returned Err and the error is propagating
    written,         \* what a plain-string sink would have received (Writeable::write_to)
    hist,            \* the calls the renderer has made, in order
    result,          \* the array format_to_parts returned
    kwargs,          \* the keyword arguments new was called with
    env,             \* what the call found outside itself: the provider and its data
    newResult,       \* what new returned
    fpc,             \* position of the NumberFormat#format call
    number,          \* the argument of NumberFormat#format
    decimal,         \* the local `decimal` of NumberFormat#format
    steps,           \* the transforms format has applied to `decimal`, in order
    formatted,       \* what NumberFormat#format returned
    formatters,      \* the DateTimeFormat.new calls that returned, in order
    callers,         \* per caller: its call of format or format_to_parts, locals included
    select_number,   \* the argument of PluralRules#select
    operand,         \* what select handed to category_for
    category         \* what select returned

cvars == <<pc, parts, current_buffer, part_stack, calls, failed, written, hist, result>>

rvars == <<kwargs, env, newResult>>

nvars == <<fpc, number, decimal, steps, formatted>>

svars == <<formatters, callers>>

pvars == <<select_number, operand, category>>

vars == <<cvars, rvars, nvars, svars, pvars>>

----------------------------------------------------------------------------
(* Bounds of the model. *)

\* the renderer makes at most MaxOps calls (write_str, with_part) per render
MaxOps == 5
\* with_part calls nest at most MaxDepth deep
MaxDepth == 3

----------------------------------------------------------------------------
(* Parts. *)

MkPart(c, v) == [category |-> c, value |-> v]

\* the Part the collector itself tags pending text with
LITERAL == MkPart("literal", "literal")

\* icu::datetime::parts
YEAR           == MkPart("datetime", "year")
MONTH          == MkPart("datetime", "month")
DAY            == MkPart("datetime", "day")
WEEKDAY        == MkPart("datetime", "weekday")
HOUR           == MkPart("datetime", "hour")
MINUTE         == MkPart("datetime", "minute")
SECOND         == MkPart("datetime", "second")
DAY_PERIOD     == MkPart("datetime", "dayperiod")
ERA            == MkPart("datetime", "era")
TIME_ZONE_NAME == MkPart("datetime", "timezonename")
\* a part of another vocabulary that the datetime renderer nests (decimal/integer)
INTEGER        == MkPart("decimal", "integer")

\* the parts the modelled renderer opens regions with
RenderParts == {DAY, INTEGER}

\* the strings the modelled renderer writes (the empty string included)
RenderStrs == {<<>>, <<"a">>, <<"1", "2">>}

\* the parts part_to_symbol_name has a name for
NamedParts ==
    {YEAR, MONTH, DAY, WEEKDAY, HOUR, MINUTE, SECOND, DAY_PERIOD, ERA, TIME_ZONE_NAME}

\* part_to_symbol_name without its DAY arm
part_to_symbol_name_NoDay(part) ==
    IF part = YEAR THEN "year"
    ELSE IF part = MONTH THEN "month"
    ELSE IF part = WEEKDAY THEN "weekday"
    ELSE IF part = HOUR THEN "hour"
    ELSE IF part = MINUTE THEN "minute"
    ELSE IF part = SECOND THEN "second"
    ELSE IF part = DAY_PERIOD THEN "day_period"
    ELSE IF part = ERA THEN "era"
    ELSE IF part = TIME_ZONE_NAME THEN "time_zone_name"
    ELSE "literal"

part_to_symbol_name(part) ==
    IF part = YEAR THEN "year"
    ELSE IF part = MONTH THEN "month"
    ELSE IF part = DAY THEN "day"
    ELSE IF part = WEEKDAY THEN "weekday"
    ELSE IF part = HOUR THEN "hour"
    ELSE IF part = MINUTE THEN "minute"
    ELSE IF part = SECOND THEN "second"
    ELSE IF part = DAY_PERIOD THEN "day_period"
    ELSE IF part = ERA THEN "era"
    ELSE IF part = TIME_ZONE_NAME THEN "time_zone_name"
    ELSE "literal"

----------------------------------------------------------------------------
(* DateTimeFormat: the options. *)

\* Option::None, and a keyword that is not given
None == "none"

DateStyle    == {"full", "long", "medium", "short"}
TimeStyle    == {"full", "long", "medium", "short"}
YearStyle    == {"numeric", "two_digit"}
MonthStyle   == {"numeric", "two_digit", "long", "short", "narrow"}
DayStyle     == {"numeric", "two_digit"}
WeekdayStyle == {"long", "short", "narrow"}
HourStyle    == {"numeric", "two_digit"}
MinuteStyle  == {"numeric", "two_digit"}
SecondStyle  == {"numeric", "two_digit"}
HourCycle    == {"h11", "h12", "h23"}

Opt(S) == S \cup {None}

\* Option<ComponentOptions>
Some(opts) == [is_some |-> TRUE, value |-> opts]
NoOptions == [is_some |-> FALSE]

ComponentOptions ==
    [year : Opt(YearStyle), month : Opt(MonthStyle), day : Opt(DayStyle),
     weekday : Opt(WeekdayStyle), hour : Opt(HourStyle), minute : Opt(MinuteStyle),
     second : Opt(SecondStyle)]

\* ComponentOptions::default()
DefaultOptions ==
    [year |-> None, month |-> None, day |-> None, weekday |-> None,
     hour |-> None, minute |-> None, second |-> None]

has_date_components(opts) ==
    opts.year # None \/ opts.month # None \/ opts.day # None \/ opts.weekday # None

has_time_components(opts) ==
    opts.hour # None \/ opts.minute # None \/ opts.second # None

is_empty(opts) == ~has_date_components(opts) /\ ~has_time_components(opts)

\* determine_length that looks at the month alone
determine_length_MonthOnly(opts) ==
    IF opts.month \in {"long", "short", "narrow"} THEN "long" ELSE "short"

\* determine_length that takes only the style long for text
determine_length_LongOnly(opts) ==
    IF opts.month = "long" \/ opts.weekday = "long" THEN "long" ELSE "short"

determine_length(opts) ==
    LET has_text_month == opts.month \in {"long", "short", "narrow"}
        has_text_weekday == opts.weekday \in {"long", "short", "narrow"}
    IN  IF has_text_month \/ has_text_weekday THEN "long" ELSE "short"

\* the keyword arguments DateTimeFormat.new reads its style and component options from
Kwargs ==
    [date_style : Opt(DateStyle), time_style : Opt(TimeStyle),
     year : Opt(YearStyle), month : Opt(MonthStyle), day : Opt(DayStyle),
     weekday : Opt(WeekdayStyle), hour : Opt(HourStyle), minute : Opt(MinuteStyle),
     second : Opt(SecondStyle)]

EmptyKwargs ==
    [date_style |-> None, time_style |-> None,
     year |-> None, month |-> None, day |-> None, weekday |-> None,
     hour |-> None, minute |-> None, second |-> None]

\* What the call finds outside itself:
\*   "ok"             a DataProvider that holds the locale's data
\*   "no_provider"    no provider: keyword and no default configured
\*   "not_a_provider" the provider: value is not a DataProvider
\*   "no_data"        the provider lacks the data the field set needs
Envs == {"ok", "no_provider", "not_a_provider", "no_data"}

----------------------------------------------------------------------------
(* DateTimeFormat: the field sets. *)

FieldSet(variant, name, length) == [variant |-> variant, name |-> name, length |-> length]

\* the components a field set of the icu crate renders; "time" is the time of day
Components(name) ==
    CASE name = "YMDE" -> {"year", "month", "day", "weekday"}
      [] name = "YMD"  -> {"year", "month", "day"}
      [] name = "MDE"  -> {"month", "day", "weekday"}
      [] name = "MD"   -> {"month", "day"}
      [] name = "YM"   -> {"year", "month"}
      [] name = "M"    -> {"month"}
      [] name = "DE"   -> {"day", "weekday"}
      [] name = "D"    -> {"day"}
      [] name = "E"    -> {"weekday"}
      [] name = "Y"    -> {"year"}
      [] name = "T"    -> {"time"}
      [] name = "YMDT" -> {"year", "month", "day", "time"}

Ok(v) == [ok |-> TRUE, value |-> v]
Err(class, what) == [ok |-> FALSE, class |-> class, error |-> what]
\* unreachable!(): the call panics
Panic == Err("panic", "unreachable")

\* The arms of the date-only match on (has_year, has_month, has_day,
\* has_weekday), in source order; "_" is the wildcard.
Arm(y, m, d, e, variant, name) ==
    [has_year |-> y, has_month |-> m, has_day |-> d, has_weekday |-> e,
     variant |-> variant, name |-> name]

\* the arms with "Day + Weekday" resolved like "Day only"
DateArms_DayWeekdayAsDay ==
    << Arm("T", "T", "T", "T", "Date", "YMDE"),
       Arm("T", "T", "T", "F", "Date", "YMD"),
       Arm("F", "T", "T", "T", "Date", "MDE"),
       Arm("F", "T", "T", "F", "Date", "MD"),
       Arm("T", "T", "F", "_", "CalendarPeriod", "YM"),
       Arm("F", "T", "F", "_", "CalendarPeriod", "M"),
       Arm("F", "F", "T", "_", "Date", "D"),
       Arm("F", "F", "T", "F", "Date", "D"),
       Arm("F", "F", "F", "T", "Date", "E"),
       Arm("T", "F", "F", "_", "CalendarPeriod", "Y"),
       Arm("T", "F", "T", "_", "Date", "YMD"),
       Arm("F", "F", "F", "F", "unreachable", "unreachable") >>

\* the arms with "Year + Day" resolved like "Year only"
DateArms_YearDayAsYear ==
    << Arm("T", "T", "T", "T", "Date", "YMDE"),
       Arm("T", "T", "T", "F", "Date", "YMD"),
       Arm("F", "T", "T", "T", "Date", "MDE"),
       Arm("F", "T", "T", "F", "Date", "MD"),
       Arm("T", "T", "F", "_", "CalendarPeriod", "YM"),
       Arm("F", "T", "F", "_", "CalendarPeriod", "M"),
       Arm("F", "F", "T", "T", "Date", "DE"),
       Arm("F", "F", "T", "F", "Date", "D"),
       Arm("F", "F", "F", "T", "Date", "E"),
       Arm("T", "F", "_", "_", "CalendarPeriod", "Y"),
       Arm("T", "F", "T", "_", "Date", "YMD"),
       Arm("F", "F", "F", "F", "unreachable", "unreachable") >>

DateArms ==
    << Arm("T", "T", "T", "T", "Date", "YMDE"),
       Arm("T", "T", "T", "F", "Date", "YMD"),
       Arm("F", "T", "T", "T", "Date", "MDE"),
       Arm("F", "T", "T", "F", "Date", "MD"),
       Arm("T", "T", "F", "_", "CalendarPeriod", "YM"),
       Arm("F", "T", "F", "_", "CalendarPeriod", "M"),
       Arm("F", "F", "T", "T", "Date", "DE"),
       Arm("F", "F", "T", "F", "Date", "D"),
       Arm("F", "F", "F", "T", "Date", "E"),
       Arm("T", "F", "F", "_", "CalendarPeriod", "Y"),
       Arm("T", "F", "T", "_", "Date", "YMD"),
       Arm("F", "F", "F", "F", "unreachable", "unreachable") >>

PatMatches(pat, b) == pat = "_" \/ (pat = "T") = b

ArmMatches(arm, y, m, d, e) ==
    /\ PatMatches(arm.has_year, y)
    /\ PatMatches(arm.has_month, m)
    /\ PatMatches(arm.has_day, d)
    /\ PatMatches(arm.has_weekday, e)

\* the indexes of the arms a combination matches
MatchingArms(y, m, d, e) == {i \in 1..Len(DateArms) : ArmMatches(DateArms[i], y, m, d, e)}

\* match: the first arm that matches
FirstArm(y, m, d, e) ==
    DateArms[CHOOSE i \in MatchingArms(y, m, d, e) :
                 \A j \in MatchingArms(y, m, d, e) : i <= j]

create_field_set_from_components(opts) ==
    LET has_date == has_date_components(opts)
        has_time == has_time_components(opts)
        length == determine_length(opts)
    IN  IF has_date /\ has_time
        THEN Ok(FieldSet("DateTime", "YMDT", length))
        ELSE IF has_date
        THEN LET arm == FirstArm(opts.year # None, opts.month # None,
                                 opts.day # None, opts.weekday # None)
             IN  IF arm.variant = "unreachable" THEN Panic
                 ELSE Ok(FieldSet(arm.variant, arm.name, length))
        ELSE IF has_time
        THEN Ok(FieldSet("Time", "T", length))
        ELSE Err("ArgumentError", "at least one component option must be specified")

StyleLength(style) == IF style \in {"full", "long"} THEN "long" ELSE style

create_field_set_from_style(date_style, time_style) ==
    IF date_style # None /\ time_style # None
    THEN Ok(FieldSet("DateTime", "YMDT", StyleLength(date_style)))
    ELSE IF date_style # None
    THEN Ok(FieldSet("Date", "YMD", StyleLength(date_style)))
    ELSE IF time_style # None
    THEN Ok(FieldSet("Time", "T", StyleLength(time_style)))
    ELSE Panic

----------------------------------------------------------------------------
(* DateTimeFormat.new. *)

\* the error of a symbol that is no variant of the enum of its keyword
SymErr(key_name, valid_symbols) ==
    [ok |-> FALSE, class |-> "ArgumentError", key |-> key_name,
     accepted |-> valid_symbols, error |-> "must be one of the accepted symbols"]

\* T::from_ruby_symbol, T the enum whose variants are named Variants
from_ruby_symbol(Variants, sym, key_name) ==
    IF sym \in Variants THEN Ok(sym) ELSE SymErr(key_name, Variants)

\* RHash::lookup of a keyword: nil for a key the hash does not hold
lookup(kw, key) == IF key \in DOMAIN kw THEN kw[key] ELSE None

\* a keyword is looked up by its name: a hash with other keys is not told apart
extract_symbol(kw, key, Variants) ==
    IF lookup(kw, key) = None THEN Ok(None)
    ELSE from_ruby_symbol(Variants, lookup(kw, key), key)

\* kwargs.lookup::<_, Option<bool>>: nil is None, false is Some(false) and
\* every other value is Some(true), as Ruby's truth has it
lookup_bool(kw, key) ==
    IF lookup(kw, key) = None THEN None
    ELSE IF lookup(kw, key) = "false" THEN "false" ELSE "true"

\* the match on (hour_cycle, hour12) with hour12 looked at first
resolve_hour_cycle_Hour12First(hour_cycle, hour12) ==
    IF hour12 = "true" THEN "h12"
    ELSE IF hour12 = "false" THEN "h23"
    ELSE hour_cycle

\* the match on (hour_cycle, hour12) of new
resolve_hour_cycle(hour_cycle, hour12) ==
    IF hour_cycle # None THEN hour_cycle
    ELSE IF hour12 = "true" THEN "h12"
    ELSE IF hour12 = "false" THEN "h23"
    ELSE None

extract_component_options(kw) ==
    LET year == extract_symbol(kw, "year", YearStyle)
        month == extract_symbol(kw, "month", MonthStyle)
        day == extract_symbol(kw, "day", DayStyle)
        weekday == extract_symbol(kw, "weekday", WeekdayStyle)
        hour == extract_symbol(kw, "hour", HourStyle)
        minute == extract_symbol(kw, "minute", MinuteStyle)
        second == extract_symbol(kw, "second", SecondStyle)
    IN  IF ~year.ok THEN year
        ELSE IF ~month.ok THEN month
        ELSE IF ~day.ok THEN day
        ELSE IF ~weekday.ok THEN weekday
        ELSE IF ~hour.ok THEN hour
        ELSE IF ~minute.ok THEN minute
        ELSE IF ~second.ok THEN second
        ELSE Ok([year |-> year.value, month |-> month.value, day |-> day.value,
                 weekday |-> weekday.value, hour |-> hour.value,
                 minute |-> minute.value, second |-> second.value])

StylesExcludeComponents_Off(has_style_options, has_component_options) == FALSE

\* "style options and component options are mutually exclusive"
StylesExcludeComponents(has_style_options, has_component_options) ==
    has_style_options /\ has_component_options

\* no default: the options stay empty
DefaultComponentOptions_Empty == DefaultOptions

\* the default with a named month
DefaultComponentOptions_LongMonth ==
    [DefaultOptions EXCEPT !.year = "numeric", !.month = "long", !.day = "numeric"]

\* the component options new applies when no option is given
DefaultComponentOptions ==
    [DefaultOptions EXCEPT !.year = "numeric", !.month = "numeric", !.day = "numeric"]

DateTimeFormat_NoOptions(inner, date_style, time_style, hour_cycle, component_options) ==
    [inner |-> inner, date_style |-> date_style, time_style |-> time_style,
     hour_cycle |-> hour_cycle, component_options |-> NoOptions]

\* the DateTimeFormat new returns
DateTimeFormat(inner, date_style, time_style, hour_cycle, component_options) ==
    [inner |-> inner, date_style |-> date_style, time_style |-> time_style,
     hour_cycle |-> hour_cycle, component_options |-> component_options]

new(kw, e) ==
    IF e = "no_provider"
    THEN Err("ArgumentError", "No provider specified and no default configured")
    ELSE
    LET date_style_r == extract_symbol(kw, "date_style", DateStyle)
        time_style_r == extract_symbol(kw, "time_style", TimeStyle)
        extracted_r == extract_component_options(kw)
    IN
    IF ~date_style_r.ok THEN date_style_r
    ELSE IF ~time_style_r.ok THEN time_style_r
    ELSE IF ~extracted_r.ok THEN extracted_r
    ELSE
    LET date_style == date_style_r.value
        time_style == time_style_r.value
        extracted == extracted_r.value
        has_style_options == date_style # None \/ time_style # None
    IN
    IF StylesExcludeComponents(has_style_options, ~is_empty(extracted))
    THEN Err("ArgumentError",
             "cannot use date_style/time_style together with component options")
    ELSE
    LET component_options ==
            IF ~has_style_options /\ is_empty(extracted)
            THEN DefaultComponentOptions ELSE extracted
        has_component_options == ~is_empty(component_options)
        hour_cycle_r == extract_symbol(kw, "hour_cycle", HourCycle)
    IN
    IF ~hour_cycle_r.ok THEN hour_cycle_r
    ELSE
    LET hour_cycle == resolve_hour_cycle(hour_cycle_r.value, lookup_bool(kw, "hour12"))
    IN
    IF e = "not_a_provider"
    THEN Err("TypeError", "provider must be a DataProvider")
    ELSE
    LET field_set ==
            IF has_component_options
            THEN create_field_set_from_components(component_options)
            ELSE create_field_set_from_style(date_style, time_style)
    IN
    IF ~field_set.ok THEN field_set
    ELSE IF e = "no_data"
    THEN Err("ICU4X::Error", "Failed to create DateTimeFormat")
    ELSE Ok(DateTimeFormat(field_set.value, date_style, time_style, hour_cycle,
                           IF has_component_options THEN Some(component_options)
                           ELSE NoOptions))

\* the keys of the hash resolved_options returns, with their values (the
\* locale and the calendar, which every hash has, and the time zone left out)
resolved_options(self) ==
    (IF self.date_style # None THEN {<<"date_style", self.date_style>>} ELSE {})
    \cup (IF self.time_style # None THEN {<<"time_style", self.time_style>>} ELSE {})
    \cup (IF self.hour_cycle # None THEN {<<"hour_cycle", self.hour_cycle>>} ELSE {})
    \cup (IF self.component_options.is_some
          THEN LET opts == self.component_options.value
               IN  {<<k, opts[k]>> : k \in {c \in DOMAIN opts : opts[c] # None}}
          ELSE {})

----------------------------------------------------------------------------
(* PartsCollector. *)

Span(text, part) == [text |-> text, part |-> part]

Pop(s) == IF s = <<>> THEN <<>> ELSE SubSeq(s, 1, Len(s) - 1)

\* flush that forgets the remaining content
flush_Drop(ps, buf) == ps

\* PartsCollector::flush: the parts after storing any remaining content as literal
flush(ps, buf) ==
    IF buf # <<>> THEN Append(ps, Span(buf, LITERAL)) ELSE ps

\* into_parts
into_parts(ps, buf) == flush(ps, buf)

\* with_part that does not store the pending top-level text
EnterParts_NoFlush(ps, buf, stack) == ps

\* with_part, before the writing function runs: the parts after the pending
\* top-level text is stored as literal
EnterParts(ps, buf, stack) ==
    IF stack = <<>> /\ buf # <<>> THEN Append(ps, Span(buf, LITERAL)) ELSE ps

EnterBuffer(buf, stack) ==
    IF stack = <<>> /\ buf # <<>> THEN <<>> ELSE buf

\* with_part that stores a span at the exit of a top-level region, text or none
ExitParts_EmptyToo(ps, buf, stack, part) ==
    IF stack = <<>> THEN Append(ps, Span(buf, part)) ELSE ps

\* with_part that stores a span at the exit of every region, nested or not
ExitParts_EveryExit(ps, buf, stack, part) ==
    IF buf # <<>> THEN Append(ps, Span(buf, part)) ELSE ps

\* with_part, after the writing function returned Ok and the stack was popped
\* to `stack`: the parts after the collected text is stored with `part`
ExitParts(ps, buf, stack, part) ==
    IF stack = <<>> /\ buf # <<>> THEN Append(ps, Span(buf, part)) ELSE ps

ExitBuffer(buf, stack) ==
    IF stack = <<>> /\ buf # <<>> THEN <<>> ELSE buf

\* parts_to_ruby_array: one FormattedPart per span, its type named by part_mapper
FormattedPart(type, value) == [type |-> type, value |-> value]

parts_to_ruby_array(ps) ==
    [i \in 1..Len(ps) |-> FormattedPart(part_to_symbol_name(ps[i].part), ps[i].text)]

----------------------------------------------------------------------------
(* format_to_parts. *)

\* the callers of format and format_to_parts
Callers == {"a", "b"}

\* a caller that has made no call
Idle ==
    [pc |-> "idle", method |-> "none", self |-> 0, collector |-> <<>>,
     hist |-> <<>>, result |-> <<>>]

\* no DateTimeFormat is made and nobody calls
InitSession ==
    /\ formatters = <<>>
    /\ callers = [c \in Callers |-> Idle]

\* no PluralRules#select call has been made
InitPlural ==
    /\ select_number = <<>>
    /\ operand = <<>>
    /\ category = <<>>

\* no NumberFormat#format call has been made
InitFormat ==
    /\ fpc = "idle"
    /\ number = <<>>
    /\ decimal = <<>>
    /\ steps = <<>>
    /\ formatted = <<>>

InitParts ==
    /\ InitFormat
    /\ InitSession
    /\ InitPlural
    /\ pc = "idle"
    /\ parts = <<>>
    /\ current_buffer = <<>>
    /\ part_stack = <<>>
    /\ calls = <<>>
    /\ failed = FALSE
    /\ written = <<>>
    /\ hist = <<>>
    /\ result = <<>>

\* the formatter of DateTimeFormat.new(locale, provider: p) renders
InitCollector ==
    /\ InitParts
    /\ kwargs = EmptyKwargs
    /\ env = "ok"
    /\ newResult = new(EmptyKwargs, "ok")

\* format_to_parts up to write_to_parts: PartsCollector::new()
FormatToParts ==
    /\ pc \in {"idle", "done", "error"}
    /\ pc' = "render"
    /\ parts' = <<>>
    /\ current_buffer' = <<>>
    /\ part_stack' = <<>>
    /\ calls' = <<>>
    /\ failed' = FALSE
    /\ written' = <<>>
    /\ hist' = <<>>
    /\ result' = <<>>
    /\ UNCHANGED <<rvars, nvars, svars, pvars>>

\* prepare_datetime rejects the argument: no collector is made
FormatToPartsBadTime ==
    /\ pc \in {"idle", "done", "error"}
    /\ pc' = "error"
    /\ parts' = <<>>
    /\ current_buffer' = <<>>
    /\ part_stack' = <<>>
    /\ calls' = <<>>
    /\ failed' = FALSE
    /\ written' = <<>>
    /\ hist' = <<>>
    /\ result' = <<>>
    /\ UNCHANGED <<rvars, nvars, svars, pvars>>

\* one call or return of the renderer, as the history records it
Ev(op, s, part) == [op |-> op, s |-> s, part |-> part]

IsCall(e) == e.op \in {"write", "enter"}

Rendering == pc = "render" /\ ~failed /\ Len(SelectSeq(hist, IsCall)) < MaxOps

\* fmt::Write::write_str
WriteStr(s) ==
    /\ Rendering
    /\ current_buffer' = current_buffer \o s
    /\ written' = written \o s
    /\ hist' = Append(hist, Ev("write", s, LITERAL))
    /\ UNCHANGED <<pc, parts, part_stack, calls, failed, result, rvars, nvars, svars, pvars>>

\* with_part up to the call of the writing function
WithPartEnter(part) ==
    /\ Rendering
    /\ Len(calls) < MaxDepth
    /\ parts' = EnterParts(parts, current_buffer, part_stack)
    /\ current_buffer' = EnterBuffer(current_buffer, part_stack)
    /\ part_stack' = Append(part_stack, part)
    /\ calls' = Append(calls, part)
    /\ hist' = Append(hist, Ev("enter", <<>>, part))
    /\ UNCHANGED <<pc, failed, written, result, rvars, nvars, svars, pvars>>

\* with_part after the writing function returned Ok
WithPartExit ==
    /\ pc = "render" /\ ~failed
    /\ calls # <<>>
    /\ LET part == calls[Len(calls)]
           stack == Pop(part_stack)
       IN /\ part_stack' = stack
          /\ parts' = ExitParts(parts, current_buffer, stack, part)
          /\ current_buffer' = ExitBuffer(current_buffer, stack)
    /\ calls' = Pop(calls)
    /\ hist' = Append(hist, Ev("exit", <<>>, calls[Len(calls)]))
    /\ UNCHANGED <<pc, failed, written, result, rvars, nvars, svars, pvars>>

\* with_part when the writing function returned Err: `f(self)?` returns at once,
\* before the pop.  The error then travels up: every enclosing writing function
\* returns it (no other call is made once `failed` holds) until write_to_parts
\* does, and format_to_parts returns it without calling into_parts.
WithPartFail ==
    /\ pc = "render"
    /\ calls # <<>>
    /\ failed' = TRUE
    /\ calls' = Pop(calls)
    /\ hist' = Append(hist, Ev("fail", <<>>, calls[Len(calls)]))
    /\ UNCHANGED <<pc, parts, current_buffer, part_stack, written, result, rvars, nvars, svars, pvars>>

\* write_to_parts returned Ok: into_parts and parts_to_ruby_array
FormatToPartsReturn ==
    /\ pc = "render" /\ ~failed
    /\ calls = <<>>
    /\ pc' = "done"
    /\ parts' = into_parts(parts, current_buffer)
    /\ current_buffer' = <<>>
    /\ result' = parts_to_ruby_array(into_parts(parts, current_buffer))
    /\ UNCHANGED <<part_stack, calls, failed, written, hist, rvars, nvars, svars, pvars>>

\* write_to_parts returned Err: format_to_parts returns the error, the collector is dropped
FormatToPartsErr ==
    /\ pc = "render" /\ failed
    /\ calls = <<>>
    /\ pc' = "error"
    /\ UNCHANGED <<parts, current_buffer, part_stack, calls, failed, written, hist, result, rvars, nvars, svars, pvars>>

NextCollector ==
    \/ FormatToParts
    \/ FormatToPartsBadTime
    \/ \E s \in RenderStrs : WriteStr(s)
    \/ \E part \in RenderParts : WithPartEnter(part)
    \/ WithPartExit
    \/ WithPartFail
    \/ FormatToPartsReturn
    \/ FormatToPartsErr

SpecCollector == InitCollector /\ [][NextCollector]_vars

----------------------------------------------------------------------------
(* DateTimeFormat.new as a step. *)

\* no call of new has returned yet
NotCalled == [ok |-> FALSE, class |-> "none", error |-> "not called"]

InitResolver ==
    /\ InitParts
    /\ kwargs = EmptyKwargs
    /\ env = "ok"
    /\ newResult = NotCalled

\* DateTimeFormat.new(locale, **kw)
New ==
    /\ newResult = NotCalled
    /\ \E kw \in Kwargs, e \in Envs :
          /\ kwargs' = kw
          /\ env' = e
          /\ newResult' = new(kw, e)
    /\ UNCHANGED <<cvars, nvars, svars, pvars>>

NextResolver == New

SpecResolver == InitResolver /\ [][NextResolver]_vars

----------------------------------------------------------------------------
(* What the renderer's calls say, read off the call history alone. *)

RECURSIVE ConcatTexts(_)
ConcatTexts(ps) ==
    IF ps = <<>> THEN <<>> ELSE ps[1].text \o ConcatTexts(Tail(ps))

RECURSIVE ConcatValues(_)
ConcatValues(fps) ==
    IF fps = <<>> THEN <<>> ELSE fps[1].value \o ConcatValues(Tail(fps))

\* The history cut at top level: one segment per run of top-level writes that a
\* top-level region ended ("literal") and one per closed top-level region
\* ("region", with all text written until its exit, nested regions included);
\* `open` is the segment the history ends in.
RECURSIVE Seg(_, _, _, _, _, _)
Seg(h, i, d, text, tag, out) ==
    IF i > Len(h)
    THEN [out |-> out, depth |-> d, text |-> text, tag |-> tag]
    ELSE LET e == h[i]
         IN  CASE e.op = "write" -> Seg(h, i + 1, d, text \o e.s, tag, out)
               [] e.op = "enter" ->
                    IF d = 0
                    THEN Seg(h, i + 1, 1, <<>>, e.part,
                             Append(out, [kind |-> "literal", tag |-> LITERAL, text |-> text]))
                    ELSE Seg(h, i + 1, d + 1, text, tag, out)
               [] e.op = "exit" ->
                    IF d = 1
                    THEN Seg(h, i + 1, 0, <<>>, LITERAL,
                             Append(out, [kind |-> "region", tag |-> tag, text |-> text]))
                    ELSE Seg(h, i + 1, d - 1, text, tag, out)
               [] OTHER -> Seg(h, i + 1, d, text, tag, out)

Segments(h) == Seg(h, 1, 0, <<>>, LITERAL, <<>>)

\* the closed segments, and the top-level text written after the last region
AllSegments(h) ==
    LET sg == Segments(h)
    IN  IF sg.depth = 0
        THEN Append(sg.out, [kind |-> "literal", tag |-> LITERAL, text |-> sg.text])
        ELSE sg.out

HasText(sg) == sg.text # <<>>
IsRegionSeg(sg) == sg.kind = "region" /\ sg.text # <<>>
IsLiteralSeg(sg) == sg.kind = "literal" /\ sg.text # <<>>
SegSpans(sgs) == [i \in 1..Len(sgs) |-> Span(sgs[i].text, sgs[i].tag)]

\* one span per top-level region that wrote text, tagged with that region
RegionSpans(h) == SegSpans(SelectSeq(Segments(h).out, IsRegionSeg))
\* one span per non-empty run of top-level text
LiteralSpans(h) == SegSpans(SelectSeq(AllSegments(h), IsLiteralSeg))

IsLiteralSpan(sp) == sp.part = LITERAL
IsTaggedSpan(sp) == sp.part # LITERAL

\* the with_part calls of the history nest at least n deep
RECURSIVE DepthReached(_, _, _, _)
DepthReached(h, i, d, n) ==
    IF d >= n THEN TRUE
    ELSE IF i > Len(h) THEN FALSE
    ELSE DepthReached(h, i + 1,
                      IF h[i].op = "enter" THEN d + 1
                      ELSE IF h[i].op = "exit" THEN d - 1 ELSE d, n)

----------------------------------------------------------------------------
(* C1: concatenation law.  When format_to_parts has returned (every writing
   function succeeded), the texts of the spans into_parts returned, joined in
   order, are the string a plain-string sink received, and so are the values
   of the FormattedParts handed to the caller. *)
C1_Concatenation ==
    pc = "done" => /\ ConcatTexts(parts) = written
                   /\ ConcatValues(result) = written

C1_Witness ==
    /\ pc = "done"
    /\ DepthReached(hist, 1, 0, 2)
    /\ Len(parts) >= 3
    /\ ConcatTexts(parts) = <<"a", "1", "2", "a">>

(* C2: nesting tie-break.  While no writing function has failed, the spans
   with a region's tag are, in order, exactly one span per closed top-level
   region that wrote text; it carries that region's tag and all the text
   written between its enter and its exit, nested regions included. *)
C2_OutermostWins ==
    ~failed => SelectSeq(parts, IsTaggedSpan) = RegionSpans(hist)

C2_Witness ==
    /\ pc = "done"
    /\ hist = <<Ev("enter", <<>>, DAY), Ev("enter", <<>>, INTEGER),
                Ev("write", <<"1", "2">>, LITERAL),
                Ev("exit", <<>>, INTEGER), Ev("exit", <<>>, DAY)>>
    /\ parts = <<Span(<<"1", "2">>, DAY)>>

(* C3: top-level text is literal.  When format_to_parts has returned, the
   spans tagged literal are, in order, exactly the non-empty runs of text
   written while no region was open (before the first top-level region,
   between two of them, after the last): no such text is in a region's span
   and no region's text is in a literal span. *)
C3_TopLevelLiteral ==
    pc = "done" => /\ SelectSeq(parts, IsLiteralSpan) = LiteralSpans(hist)
                   /\ parts = SegSpans(SelectSeq(AllSegments(hist), HasText))

C3_Witness ==
    /\ pc = "done"
    /\ parts = <<Span(<<"1", "2">>, DAY), Span(<<"a">>, LITERAL),
                 Span(<<"1", "2">>, INTEGER)>>

NoAdjacentLiteral(fps) ==
    \A i \in 1..(Len(fps) - 1) : ~(fps[i].type = "literal" /\ fps[i + 1].type = "literal")

\* every top-level region of the history wrote text under a part that has a name
RegionsNamedAndFilled(h) ==
    \A i \in 1..Len(Segments(h).out) :
        LET sg == Segments(h).out[i]
        IN  sg.kind = "region" => sg.text # <<>> /\ sg.tag \in NamedParts

(* C4 as stated: in the array a render call returns, no two adjacent parts
   both have the type literal. *)
C4_NoAdjacentLiteral ==
    pc = "done" => NoAdjacentLiteral(result)

(* C4 as amended: in the array a render call returns, no two adjacent parts
   both have the type literal, provided every top-level region of the render
   wrote text under one of the ten parts part_to_symbol_name names; the
   collector does not merge literal text across a region that wrote nothing
   or whose part is named literal. *)
C4_NoAdjacentLiteralAcrossNamedRegions ==
    pc = "done" /\ RegionsNamedAndFilled(hist) => NoAdjacentLiteral(result)

C4_Witness ==
    /\ pc = "done"
    /\ RegionsNamedAndFilled(hist)
    /\ result = <<FormattedPart("literal", <<"a">>), FormattedPart("day", <<"1", "2">>),
                  FormattedPart("literal", <<"a">>)>>

----------------------------------------------------------------------------
(* DateTimeFormat.new: what the claims speak of. *)

Called == newResult # NotCalled

HasStyleKey(kw) == kw.date_style # None \/ kw.time_style # None

DateKeys == {"year", "month", "day", "weekday"}
TimeKeys == {"hour", "minute", "second"}

\* the date components, and the time components, an option set asks for
RequestedDate(kw) == {k \in DateKeys : kw[k] # None}
RequestedTime(kw) == {k \in TimeKeys : kw[k] # None}

HasComponentKey(kw) == RequestedDate(kw) # {} \/ RequestedTime(kw) # {}

\* new was called with date components at most, and found its provider and data
DateOnlyCall ==
    Called /\ env = "ok" /\ ~HasStyleKey(kwargs) /\ RequestedTime(kwargs) = {}

\* one option set for every presence combination of the four date components
PresenceKwargs(R) ==
    [EmptyKwargs EXCEPT !.year = IF "year" \in R THEN "numeric" ELSE None,
                        !.month = IF "month" \in R THEN "numeric" ELSE None,
                        !.day = IF "day" \in R THEN "numeric" ELSE None,
                        !.weekday = IF "weekday" \in R THEN "long" ELSE None]

\* the components of the field set new selects for a presence combination
SelectedFor(R) == Components(new(PresenceKwargs(R), "ok").value.inner.name)

\* the combinations that do not resolve to exactly the requested components
Inexact == {R \in SUBSET DateKeys : SelectedFor(R) # R}
\* the combinations whose field set lacks a requested component
Lossy == {R \in SUBSET DateKeys : ~(R \subseteq SelectedFor(R))}

(* C5: mutual exclusion.  For every option set with a style key and a
   component key, new returns an ArgumentError and no formatter; unless the
   provider was missing in the first place, it is the error that says styles
   and components cannot be used together. *)
C5_MutualExclusion ==
    Called /\ HasStyleKey(kwargs) /\ HasComponentKey(kwargs) =>
        /\ ~newResult.ok
        /\ newResult.class = "ArgumentError"
        /\ env # "no_provider" =>
              newResult.error =
                  "cannot use date_style/time_style together with component options"

C5_Witness ==
    /\ Called /\ env = "ok"
    /\ kwargs.time_style = "short" /\ kwargs.weekday = "long"
    /\ ~newResult.ok

(* C6: the default.  For the option set with no style key and no component
   key, new fails only for want of a provider or of data; otherwise the
   formatter it returns holds the components year, month and day, all
   numeric, and the year-month-day field set with short length. *)
C6_EmptyOptionsDefault ==
    Called /\ kwargs = EmptyKwargs =>
        /\ newResult.ok <=> env = "ok"
        /\ newResult.ok =>
              /\ newResult.value.component_options =
                     Some([year |-> "numeric", month |-> "numeric", day |-> "numeric",
                           weekday |-> None, hour |-> None, minute |-> None,
                           second |-> None])
              /\ newResult.value.inner = FieldSet("Date", "YMD", "short")
              /\ newResult.value.date_style = None
              /\ newResult.value.time_style = None

C6_Witness ==
    Called /\ kwargs = EmptyKwargs /\ newResult.ok

(* C7: the decision table is total and unambiguous.  For every presence
   combination of year, month, day and weekday, exactly one arm of the
   date-only match applies and new selects a field set: the one of that arm,
   or, for the empty combination, the default year-month-day.  Year, month
   and day select year-month-day; day and weekday select day-weekday. *)
C7_DecisionTable ==
    DateOnlyCall =>
        LET R == RequestedDate(kwargs)
            arms == MatchingArms("year" \in R, "month" \in R, "day" \in R, "weekday" \in R)
        IN  /\ Cardinality(arms) = 1
            /\ newResult.ok
            /\ R # {} => \A i \in arms :
                  /\ newResult.value.inner.variant = DateArms[i].variant
                  /\ newResult.value.inner.name = DateArms[i].name
            /\ R = {} => newResult.value.inner.name = "YMD"
            /\ R = {"year", "month", "day"} =>
                  /\ newResult.value.inner.variant = "Date"
                  /\ newResult.value.inner.name = "YMD"
            /\ R = {"day", "weekday"} =>
                  /\ newResult.value.inner.variant = "Date"
                  /\ newResult.value.inner.name = "DE"

C7_Witness ==
    /\ DateOnlyCall
    /\ RequestedDate(kwargs) = {"day", "weekday"}
    /\ newResult.ok /\ newResult.value.inner.name = "DE"

(* C8 as stated: exactly three presence combinations do not resolve to the
   field set with exactly the requested components, and the field set new
   selects always holds every requested component. *)
C8_ThreeSupersets ==
    DateOnlyCall =>
        /\ Cardinality(Inexact) = 3
        /\ newResult.ok => RequestedDate(kwargs) \subseteq Components(newResult.value.inner.name)

(* C8 as amended: six presence combinations do not resolve to the field set
   with exactly the requested components.  The empty combination and
   year+day resolve to the superset year-month-day.  Year+month+weekday,
   month+weekday and year+weekday resolve to the requested components
   without the weekday, and year+day+weekday resolves to year-month-day,
   without the weekday too.  The other ten resolve to exactly the requested
   components. *)
C8_SixInexact ==
    DateOnlyCall =>
        LET R == RequestedDate(kwargs)
            S == Components(newResult.value.inner.name)
        IN  /\ newResult.ok
            /\ Cardinality(Inexact) = 6
            /\ Cardinality(Lossy) = 4
            /\ IF R \in {{}, {"year", "day"}, {"year", "day", "weekday"}}
               THEN S = {"year", "month", "day"}
               ELSE IF "weekday" \in R /\ "day" \notin R /\ R # {"weekday"}
               THEN S = R \ {"weekday"}
               ELSE S = R

C8_Witness ==
    /\ DateOnlyCall
    /\ RequestedDate(kwargs) = {"year", "weekday"}
    /\ newResult.ok /\ newResult.value.inner.name = "Y"

(* C9 as stated: time components do not change the date fields.  The date
   components of the field set new selects are those of the field set it
   selects for the same options without hour, minute and second. *)
C9_TimeOrthogonal ==
    Called /\ newResult.ok /\ ~HasStyleKey(kwargs) /\ RequestedDate(kwargs) # {} =>
        LET alone == new([kwargs EXCEPT !.hour = None, !.minute = None, !.second = None], env)
        IN  Components(newResult.value.inner.name) \ {"time"}
                = Components(alone.value.inner.name)

(* C10: length of component options.  Whenever new resolves component
   options (given or default), the length of the field set is long if the
   month style is long, short or narrow or a weekday style is given, and
   short otherwise. *)
C10_LengthClassification ==
    Called /\ newResult.ok /\ newResult.value.component_options.is_some =>
        LET opts == newResult.value.component_options.value
            textual == opts.month \in {"long", "short", "narrow"} \/ opts.weekday # None
        IN  /\ opts = IF HasComponentKey(kwargs)
                      THEN extract_component_options(kwargs).value
                      ELSE DefaultComponentOptions
            /\ newResult.value.inner.length = IF textual THEN "long" ELSE "short"

C10_Witness ==
    /\ Called /\ newResult.ok
    /\ kwargs.month = "two_digit" /\ kwargs.weekday = "narrow" /\ kwargs.hour = "numeric"
    /\ newResult.value.inner.length = "long"

(* C11 as stated: style lengths are independent.  Whenever new resolves a
   style-only option set, the date part of the field set has the length of
   date_style and the time part the length of time_style (full and long give
   long, medium gives medium, short gives short).  A field set has one length
   for all its parts. *)
C11_IndependentStyleLengths ==
    Called /\ newResult.ok /\ ~newResult.value.component_options.is_some =>
        /\ kwargs.date_style # None =>
              newResult.value.inner.length = StyleLength(kwargs.date_style)
        /\ kwargs.time_style # None =>
              newResult.value.inner.length = StyleLength(kwargs.time_style)

----------------------------------------------------------------------------
(* NumberFormat: options and NumberFormat.new. *)

\* i16::MAX
I16_MAX == 32767

\* `v as i16` of a 64-bit integer: the low 16 bits, two's complement
AsI16(v) == ((v + I16_MAX + 1) % (2 * (I16_MAX + 1))) - (I16_MAX + 1)

Style == {"decimal", "percent", "currency"}

RoundingMode == {"ceil", "floor", "expand", "trunc", "half_ceil", "half_floor",
                 "half_expand", "half_trunc", "half_even"}

\* #[default]
RoundingMode_default == "half_expand"

\* Unsigned(m) is written m
to_signed_rounding_mode_HalfEvenAsHalfExpand(mode) ==
    CASE mode = "ceil" -> "Ceil"
      [] mode = "floor" -> "Floor"
      [] mode = "expand" -> "Expand"
      [] mode = "trunc" -> "Trunc"
      [] mode = "half_ceil" -> "HalfCeil"
      [] mode = "half_floor" -> "HalfFloor"
      [] mode = "half_expand" -> "HalfExpand"
      [] mode = "half_trunc" -> "HalfTrunc"
      [] mode = "half_even" -> "HalfExpand"

to_signed_rounding_mode(mode) ==
    CASE mode = "ceil" -> "Ceil"
      [] mode = "floor" -> "Floor"
      [] mode = "expand" -> "Expand"
      [] mode = "trunc" -> "Trunc"
      [] mode = "half_ceil" -> "HalfCeil"
      [] mode = "half_floor" -> "HalfFloor"
      [] mode = "half_expand" -> "HalfExpand"
      [] mode = "half_trunc" -> "HalfTrunc"
      [] mode = "half_even" -> "HalfEven"

\* an error about one keyword
KeyErr(class, key, what) == [ok |-> FALSE, class |-> class, key |-> key, error |-> what]

DigitKeys == <<"minimum_integer_digits", "minimum_fraction_digits", "maximum_fraction_digits">>

\* the Option<i64> of a digit keyword: Some(v) or NoOptions
extract_digit_option_NoCeiling(kw, name) ==
    LET value == kw[name]
    IN  IF ~value.is_some THEN Ok(NoOptions)
        ELSE IF value.value < 0
        THEN KeyErr("ArgumentError", name, "must be non-negative")
        ELSE Ok(Some(AsI16(value.value)))

extract_digit_option(kw, name) ==
    LET value == kw[name]
    IN  IF ~value.is_some THEN Ok(NoOptions)
        ELSE IF value.value < 0
        THEN KeyErr("ArgumentError", name, "must be non-negative")
        ELSE IF value.value > I16_MAX
        THEN KeyErr("ArgumentError", name, "is too large (max 32767)")
        ELSE Ok(Some(AsI16(value.value)))

extract_rounding_mode(kw) ==
    IF kw.rounding_mode = None THEN Ok(RoundingMode_default)
    ELSE IF kw.rounding_mode \in RoundingMode THEN Ok(kw.rounding_mode)
    ELSE KeyErr("ArgumentError", "rounding_mode",
                "must be :ceil, :floor, :expand, :trunc, :half_ceil, :half_floor, :half_expand, :half_trunc, or :half_even")

\* currency.parse::<TinyAsciiStr<3>>() succeeds
IsCurrencyCode(currency) == currency \in {"USD", "JPY"}

NumberFormat(inner, style, currency_code, minimum_integer_digits, minimum_fraction_digits, maximum_fraction_digits, rounding_mode) ==
    [inner |-> inner, style |-> style, currency_code |-> currency_code,
     minimum_integer_digits |-> minimum_integer_digits,
     minimum_fraction_digits |-> minimum_fraction_digits,
     maximum_fraction_digits |-> maximum_fraction_digits,
     rounding_mode |-> rounding_mode]

\* NumberFormat.new(locale, **kw); e tells what the provider keyword holds
NumberFormat_new(kw, e) ==
    IF e = "no_provider"
    THEN KeyErr("ArgumentError", "provider", "missing keyword: :provider")
    ELSE
    LET style == IF kw.style = None THEN "decimal" ELSE kw.style
    IN
    IF style \notin Style
    THEN KeyErr("ArgumentError", "style", "must be :decimal, :percent, or :currency")
    ELSE IF style = "currency" /\ kw.currency = None
    THEN KeyErr("ArgumentError", "currency", "is required when style is :currency")
    ELSE
    LET minimum_integer_digits == extract_digit_option(kw, DigitKeys[1])
        minimum_fraction_digits == extract_digit_option(kw, DigitKeys[2])
        maximum_fraction_digits == extract_digit_option(kw, DigitKeys[3])
        rounding_mode == extract_rounding_mode(kw)
    IN
    IF ~minimum_integer_digits.ok THEN minimum_integer_digits
    ELSE IF ~minimum_fraction_digits.ok THEN minimum_fraction_digits
    ELSE IF ~maximum_fraction_digits.ok THEN maximum_fraction_digits
    ELSE IF ~rounding_mode.ok THEN rounding_mode
    ELSE IF e = "not_a_provider"
    THEN Err("TypeError", "provider must be a DataProvider")
    ELSE IF style = "currency" /\ ~IsCurrencyCode(kw.currency)
    THEN KeyErr("ArgumentError", "currency", "must be a valid 3-letter ISO 4217 code")
    ELSE IF e = "no_data"
    THEN Err("ICU4X::Error", "Failed to create NumberFormat")
    ELSE Ok(NumberFormat(style, style, kw.currency, minimum_integer_digits.value,
                         minimum_fraction_digits.value, maximum_fraction_digits.value,
                         rounding_mode.value))
----------------------------------------------------------------------------
(* The Decimal of the fixed_decimal crate: a sign, the digits from the first
   to the last nonzero one, the magnitude (power of ten) of the first digit,
   and the magnitudes of the first and the last digit that are displayed. *)

Max(a, b) == IF a >= b THEN a ELSE b
Min(a, b) == IF a <= b THEN a ELSE b

Decimal(sign, digits, magnitude, upper_magnitude, lower_magnitude) ==
    [sign |-> sign, digits |-> digits, magnitude |-> magnitude,
     upper_magnitude |-> upper_magnitude, lower_magnitude |-> lower_magnitude]

RECURSIVE StripLeft(_)
StripLeft(s) == IF s # <<>> /\ Head(s) = 0 THEN StripLeft(Tail(s)) ELSE s

RECURSIVE StripRight(_)
StripRight(s) ==
    IF s # <<>> /\ s[Len(s)] = 0 THEN StripRight(SubSeq(s, 1, Len(s) - 1)) ELSE s

\* s.parse::<Decimal>() of the text [-]int[.frac], and Decimal::from(i64)
from_str(neg, int, frac) ==
    LET all == int \o frac
        digits == StripRight(StripLeft(all))
        leading == Len(all) - Len(StripLeft(all))
    IN  Decimal(IF neg THEN "-" ELSE "", digits,
                IF digits = <<>> THEN 0 ELSE Len(int) - 1 - leading,
                Len(int) - 1, -Len(frac))

\* the digit of d at a magnitude
DigitAt(d, m) ==
    LET i == d.magnitude - m + 1
    IN  IF i >= 1 /\ i <= Len(d.digits) THEN d.digits[i] ELSE 0

\* the magnitude of the last nonzero digit
nonzero_magnitude_end(d) ==
    IF d.digits = <<>> THEN 0 ELSE d.magnitude - (Len(d.digits) - 1)

\* delta > 0, no overflow of upper_magnitude
multiply_pow10(d, delta) ==
    Decimal(d.sign, d.digits,
            IF d.digits = <<>> THEN d.magnitude ELSE d.magnitude + delta,
            d.upper_magnitude + delta, Min(0, d.lower_magnitude + delta))

trim_start_Keep(d) == d

trim_start(d) == [d EXCEPT !.upper_magnitude = Max(d.magnitude, 0)]

\* the rounding of the absolute value that a signed mode stands for
UnsignedMode(sign, mode) ==
    CASE mode = "Ceil" -> IF sign = "-" THEN "Trunc" ELSE "Expand"
      [] mode = "Floor" -> IF sign = "-" THEN "Expand" ELSE "Trunc"
      [] mode = "HalfCeil" -> IF sign = "-" THEN "HalfTrunc" ELSE "HalfExpand"
      [] mode = "HalfFloor" -> IF sign = "-" THEN "HalfExpand" ELSE "HalfTrunc"
      [] OTHER -> mode

\* the digits of d at magnitudes >= position
Kept(d, position) ==
    SubSeq(d.digits, 1, Max(0, Min(Len(d.digits), d.magnitude - position + 1)))

\* the absolute value of d moves up to the next multiple of 10^position
RoundsUp(d, position, mode) ==
    LET first == DigitAt(d, position - 1)
        some == d.digits # <<>> /\ nonzero_magnitude_end(d) < position
        more == d.digits # <<>> /\ nonzero_magnitude_end(d) < position - 1
    IN  CASE mode = "Trunc" -> FALSE
          [] mode = "Expand" -> some
          [] mode = "HalfExpand" -> first >= 5
          [] mode = "HalfTrunc" -> first > 5 \/ (first = 5 /\ more)
          [] mode = "HalfEven" ->
                first > 5 \/ (first = 5 /\ (more \/ DigitAt(d, position) % 2 = 1))

\* s + 1, one digit longer when every digit is 9
RECURSIVE AddOne(_)
AddOne(s) ==
    IF s = <<>> THEN <<1>>
    ELSE IF s[Len(s)] < 9 THEN [s EXCEPT ![Len(s)] = @ + 1]
    ELSE AddOne(SubSeq(s, 1, Len(s) - 1)) \o <<0>>

\* position <= 0
round_with_mode(d, position, mode) ==
    LET kept == Kept(d, position)
        up == RoundsUp(d, position, UnsignedMode(d.sign, mode))
        raised == IF up THEN AddOne(kept) ELSE kept
        top == IF kept = <<>> THEN position
               ELSE d.magnitude + (Len(raised) - Len(kept))
        digits == StripRight(raised)
        magnitude == IF digits = <<>> THEN 0 ELSE top
    IN  Decimal(d.sign, digits, magnitude,
                Max(d.upper_magnitude, magnitude), Min(position, 0))

\* trailing zeros below position are cut, other digits are not
pad_end(d, position) ==
    IF position > 0 THEN d
    ELSE [d EXCEPT !.lower_magnitude =
              IF position >= nonzero_magnitude_end(d)
              THEN nonzero_magnitude_end(d) ELSE position]

\* leading zeros above position are cut, other digits are not
pad_start(d, position) ==
    IF position <= 0 THEN d
    ELSE [d EXCEPT !.upper_magnitude =
              IF position - 1 <= d.magnitude THEN d.magnitude ELSE position - 1]

\* the digits a formatter displays: from upper_magnitude down to lower_magnitude
Displayed(d) ==
    [sign |-> d.sign,
     integer |-> [i \in 1..(d.upper_magnitude + 1) |-> DigitAt(d, d.upper_magnitude + 1 - i)],
     fraction |-> [i \in 1..(-d.lower_magnitude) |-> DigitAt(d, -i)]]
----------------------------------------------------------------------------
(* NumberFormat#format. *)

\* the numbers given to format have at most MaxFraction fraction digits
MaxFraction == 2

InputDigits == {0, 5, 9}

Fractions == UNION {[1..n -> InputDigits] : n \in 0..MaxFraction}

\* a Ruby number of a class, and its text: what format!("{}", f) or
\* to_s("F") gives, or the digits of the Integer
Number(class, neg, int, frac) == [class |-> class, neg |-> neg, int |-> int, frac |-> frac]

\* Float::NAN, whose text has no digit
NaN == Number("Float", FALSE, <<>>, <<>>)

Examples ==
    {Number("Float", FALSE, <<3>>, <<1, 4, 1, 5, 9>>),
     Number("Float", FALSE, <<0>>, <<1, 2, 5>>),
     Number("Float", TRUE, <<2>>, <<5>>),
     Number("BigDecimal", FALSE, <<1>>, <<5>>)}

\* Integers, Floats (a whole Float prints without a fraction), whole
\* BigDecimals (which print with the fraction .0), and a String
Numbers ==
    ({Number("Integer", neg, <<i>>, <<>>) : neg \in BOOLEAN, i \in InputDigits}
        \ {Number("Integer", TRUE, <<0>>, <<>>)})
    \cup {Number("Float", neg, <<i>>, f) :
        neg \in BOOLEAN, i \in InputDigits,
        f \in {g \in Fractions : g = <<>> \/ g[Len(g)] # 0}}
    \cup {Number("BigDecimal", neg, <<i>>, <<0>>) : neg \in BOOLEAN, i \in InputDigits}
    \cup Examples
    \cup {NaN, Number("String", FALSE, <<>>, <<>>)}

convert_to_decimal(n) ==
    IF n.class = "Float"
    THEN IF n.int = <<>>
         THEN Err("ArgumentError", "Failed to convert to Decimal")
         ELSE Ok(from_str(n.neg, n.int, n.frac))
    ELSE IF n.class = "Integer"
    THEN Ok(from_str(n.neg, n.int, <<>>))
    ELSE IF n.class = "BigDecimal"
    THEN Ok(from_str(n.neg, n.int, n.frac))
    ELSE Err("TypeError", "number must be an Integer, Float, or BigDecimal")

\* the option sets of the formatters that format
FormatKwargs ==
    [style : {None, "percent"},
     currency : {None},
     minimum_integer_digits : {NoOptions, Some(0), Some(3)},
     minimum_fraction_digits : {NoOptions, Some(0), Some(2), Some(3)},
     maximum_fraction_digits : {NoOptions, Some(0), Some(1), Some(2)},
     rounding_mode : RoundingMode \cup {None}]
    \cup {[style |-> "currency", currency |-> "USD",
           minimum_integer_digits |-> NoOptions, minimum_fraction_digits |-> NoOptions,
           maximum_fraction_digits |-> Some(2), rounding_mode |-> None]}

\* a formatter of NumberFormat.new(locale, provider: p, **kw) formats
InitNumber ==
    /\ InitParts
    /\ env = "ok"
    /\ kwargs \in FormatKwargs
    /\ newResult = NumberFormat_new(kwargs, env)

\* format up to the percent test: convert_to_decimal.  One call is followed:
\* format takes &self and its locals are dropped when it returns
Format ==
    /\ fpc = "idle"
    /\ newResult.ok
    /\ \E n \in Numbers :
          LET converted == convert_to_decimal(n)
          IN  /\ number' = n
              /\ steps' = <<>>
              /\ IF converted.ok
                 THEN /\ decimal' = converted.value
                      /\ fpc' = "percent"
                      /\ formatted' = <<>>
                 ELSE /\ decimal' = <<>>
                      /\ fpc' = "error"
                      /\ formatted' = converted
    /\ UNCHANGED <<cvars, rvars, svars, pvars>>

\* if self.style == Style::Percent
FormatPercent ==
    /\ fpc = "percent"
    /\ IF newResult.value.style = "percent"
       THEN /\ decimal' = trim_start(multiply_pow10(decimal, 2))
            /\ steps' = Append(steps, "percent")
       ELSE UNCHANGED <<decimal, steps>>
    /\ fpc' = "round"
    /\ UNCHANGED <<cvars, rvars, svars, pvars, number, formatted>>

FormatRound_PadFirst ==
    /\ fpc = "round"
    /\ LET nf == newResult.value
           padded == IF nf.minimum_fraction_digits.is_some
                     THEN pad_end(decimal, -nf.minimum_fraction_digits.value)
                     ELSE decimal
           rounded == IF nf.maximum_fraction_digits.is_some
                      THEN round_with_mode(padded, -nf.maximum_fraction_digits.value,
                                           to_signed_rounding_mode(nf.rounding_mode))
                      ELSE padded
       IN  /\ decimal' = rounded
           /\ steps' = steps
                  \o (IF nf.minimum_fraction_digits.is_some THEN <<"pad_end">> ELSE <<>>)
                  \o (IF nf.maximum_fraction_digits.is_some THEN <<"round">> ELSE <<>>)
    /\ fpc' = "pad_start"
    /\ UNCHANGED <<cvars, rvars, svars, pvars, number, formatted>>

\* if let Some(max) = self.maximum_fraction_digits
FormatRound ==
    /\ fpc = "round"
    /\ IF newResult.value.maximum_fraction_digits.is_some
       THEN /\ decimal' = round_with_mode(decimal,
                              -newResult.value.maximum_fraction_digits.value,
                              to_signed_rounding_mode(newResult.value.rounding_mode))
            /\ steps' = Append(steps, "round")
       ELSE UNCHANGED <<decimal, steps>>
    /\ fpc' = "pad_end"
    /\ UNCHANGED <<cvars, rvars, svars, pvars, number, formatted>>

\* if let Some(min) = self.minimum_fraction_digits
FormatPadEnd ==
    /\ fpc = "pad_end"
    /\ IF newResult.value.minimum_fraction_digits.is_some
       THEN /\ decimal' = pad_end(decimal, -newResult.value.minimum_fraction_digits.value)
            /\ steps' = Append(steps, "pad_end")
       ELSE UNCHANGED <<decimal, steps>>
    /\ fpc' = "pad_start"
    /\ UNCHANGED <<cvars, rvars, svars, pvars, number, formatted>>

\* if let Some(min) = self.minimum_integer_digits
FormatPadStart ==
    /\ fpc = "pad_start"
    /\ IF newResult.value.minimum_integer_digits.is_some
       THEN /\ decimal' = pad_start(decimal, newResult.value.minimum_integer_digits.value)
            /\ steps' = Append(steps, "pad_start")
       ELSE UNCHANGED <<decimal, steps>>
    /\ fpc' = "format"
    /\ UNCHANGED <<cvars, rvars, svars, pvars, number, formatted>>

\* formatter.format(&decimal).to_string(): the digits in the locale's symbols
FormatReturn ==
    /\ fpc = "format"
    /\ formatted' = Ok(Displayed(decimal))
    /\ fpc' = "done"
    /\ UNCHANGED <<cvars, rvars, svars, pvars, number, decimal, steps>>

NextNumber ==
    \/ Format
    \/ FormatPercent
    \/ FormatRound
    \/ FormatPadEnd
    \/ FormatPadStart
    \/ FormatReturn

SpecNumber == InitNumber /\ [][NextNumber]_vars

----------------------------------------------------------------------------
(* NumberFormat.new as a step. *)

DigitValues == {-1, 0, 2, 3, I16_MAX, I16_MAX + 1}

DigitOption == {NoOptions} \cup {Some(v) : v \in DigitValues}

NumberKwargs ==
    [style : Style \cup {None, "scientific"},
     currency : {None, "USD", "dollars"},
     minimum_integer_digits : DigitOption,
     minimum_fraction_digits : DigitOption,
     maximum_fraction_digits : DigitOption,
     rounding_mode : {None, "half_even", "floor", "half_up"}]

\* NumberFormat.new(locale, **kw)
NumberNew ==
    /\ newResult = NotCalled
    /\ \E kw \in NumberKwargs, e \in Envs :
          /\ kwargs' = kw
          /\ env' = e
          /\ newResult' = NumberFormat_new(kw, e)
    /\ UNCHANGED <<cvars, nvars, svars, pvars>>

NextNumberNew == NumberNew

SpecNumberNew == InitResolver /\ [][NextNumberNew]_vars

----------------------------------------------------------------------------
(* What a format call did, read off its number and its formatter. *)

RECURSIVE Pow10(_)
Pow10(n) == IF n <= 0 THEN 1 ELSE 10 * Pow10(n - 1)

\* the absolute value of d in units of 10^-k, for k large enough
RECURSIVE UnitsFrom(_, _, _)
UnitsFrom(d, k, i) ==
    IF i > Len(d.digits) THEN 0
    ELSE d.digits[i] * Pow10(d.magnitude - i + 1 + k) + UnitsFrom(d, k, i + 1)

Units(d, k) == UnitsFrom(d, k, 1)

\* a and b are the same number
SameValue(a, b) ==
    a.sign = b.sign /\ a.digits = b.digits /\ a.magnitude = b.magnitude

\* the decimal format starts from
Converted == convert_to_decimal(number).value

\* the transforms whose option the formatter has
OptionSteps(nf) ==
    {s \in {"percent"} : nf.style = "percent"}
    \cup {s \in {"round"} : nf.maximum_fraction_digits.is_some}
    \cup {s \in {"pad_end"} : nf.minimum_fraction_digits.is_some}
    \cup {s \in {"pad_start"} : nf.minimum_integer_digits.is_some}

PipelineOrder == <<"percent", "round", "pad_end", "pad_start">>

\* the transforms due once format has passed the test at position p
DueAt(p) ==
    CASE p = "percent" -> {}
      [] p = "round" -> {"percent"}
      [] p = "pad_end" -> {"percent", "round"}
      [] p = "pad_start" -> {"percent", "round", "pad_end"}
      [] OTHER -> {"percent", "round", "pad_end", "pad_start"}

(* C12: the order of the transforms.  At every point of a format call the
   transforms applied so far are, in the order percent scaling, rounding,
   fraction padding, integer padding, exactly those among the ones already
   due whose option the formatter has: an absent option skips its step, and
   rounding is never applied after a padding. *)
C12_FixedOrder ==
    fpc \in {"percent", "round", "pad_end", "pad_start", "format", "done"} =>
        LET nf == newResult.value
            Applied(s) == s \in OptionSteps(nf) /\ s \in DueAt(fpc)
        IN  steps = SelectSeq(PipelineOrder, Applied)

C12_Witness ==
    /\ fpc = "done"
    /\ steps = PipelineOrder
    /\ decimal # Converted

\* the decimal the rounding step of format starts from
Scaled ==
    IF newResult.value.style = "percent"
    THEN trim_start(multiply_pow10(Converted, 2)) ELSE Converted

\* whether a mode moves a value with n units, of sign sign, up in absolute
\* value to the next multiple of u units, by the arithmetic of the remainder
AwayFromZero(mode, sign, n, u) ==
    LET q == n \div u
        r == n % u
        tie == 2 * r = u
        above == 2 * r > u
        positive == sign # "-"
    IN  CASE mode = "ceil" -> r > 0 /\ positive
          [] mode = "floor" -> r > 0 /\ ~positive
          [] mode = "expand" -> r > 0
          [] mode = "trunc" -> FALSE
          [] mode = "half_ceil" -> above \/ (tie /\ positive)
          [] mode = "half_floor" -> above \/ (tie /\ ~positive)
          [] mode = "half_expand" -> above \/ tie
          [] mode = "half_trunc" -> above
          [] mode = "half_even" -> above \/ (tie /\ q % 2 = 1)

\* the format call has just rounded
Rounded == fpc = "pad_end" /\ newResult.value.maximum_fraction_digits.is_some

(* C13: rounding.  When maximum_fraction_digits = m is set, the rounding step
   leaves exactly m fraction digits and the nearest multiple of 10^-m on the
   side its mode names: ceil and floor toward plus and minus infinity, expand
   and trunc away from and toward zero, and the five half modes the nearest
   multiple, a tie going toward plus infinity (half_ceil), minus infinity
   (half_floor), away from zero (half_expand), toward zero (half_trunc) or to
   the even digit (half_even).  Without a rounding_mode the mode is
   half_expand.  0.125 with m = 2 and half_even gives 0.12, and 3.14159 with
   m = 2 and half_expand gives 3.14. *)
C13_RoundingModes ==
    /\ newResult.ok /\ kwargs.rounding_mode = None =>
          newResult.value.rounding_mode = "half_expand"
    /\ Rounded =>
          LET nf == newResult.value
              m == nf.maximum_fraction_digits.value
              k == Max(m, -nonzero_magnitude_end(Scaled))
              u == Pow10(k - m)
              n == Units(Scaled, k)
              up == AwayFromZero(nf.rounding_mode, Scaled.sign, n, u)
          IN  /\ decimal.lower_magnitude = -m
              /\ decimal.sign = Scaled.sign
              /\ Units(decimal, k) = ((n \div u) + (IF up THEN 1 ELSE 0)) * u
              /\ nonzero_magnitude_end(decimal) >= -m
    /\ Rounded /\ kwargs.style = None /\ kwargs.maximum_fraction_digits = Some(2) =>
          /\ number = Number("Float", FALSE, <<0>>, <<1, 2, 5>>)
                /\ kwargs.rounding_mode = "half_even"
                => Displayed(decimal).integer = <<0>> /\ Displayed(decimal).fraction = <<1, 2>>
          /\ number = Number("Float", FALSE, <<3>>, <<1, 4, 1, 5, 9>>)
                /\ kwargs.rounding_mode = "half_expand"
                => Displayed(decimal).integer = <<3>> /\ Displayed(decimal).fraction = <<1, 4>>

\* the tie 0.125 goes to the even digit 2
C13_Witness ==
    /\ Rounded /\ kwargs.style = None /\ kwargs.maximum_fraction_digits = Some(2)
    /\ number = Number("Float", FALSE, <<0>>, <<1, 2, 5>>)
    /\ kwargs.rounding_mode = "half_even"
    /\ Displayed(decimal).fraction = <<1, 2>>

(* C14 as stated: padding only adds digits.  The fraction padding step leaves
   the decimal with the fraction digits it had, and zeros after them up to
   minimum_fraction_digits; the integer padding step leaves it with the
   integer digits it had, and zeros before them up to minimum_integer_digits;
   neither changes the value. *)
C14_PaddingOnlyAdds ==
    [][/\ FormatPadEnd /\ newResult.value.minimum_fraction_digits.is_some =>
             /\ SameValue(decimal', decimal)
             /\ decimal'.upper_magnitude = decimal.upper_magnitude
             /\ decimal'.lower_magnitude =
                   Min(decimal.lower_magnitude, -newResult.value.minimum_fraction_digits.value)
       /\ FormatPadStart /\ newResult.value.minimum_integer_digits.is_some =>
             /\ SameValue(decimal', decimal)
             /\ decimal'.lower_magnitude = decimal.lower_magnitude
             /\ decimal'.upper_magnitude =
                   Max(decimal.upper_magnitude, newResult.value.minimum_integer_digits.value - 1)
      ]_vars

\* the format call has just scaled, or passed the scaling by
Scaling == fpc = "round"

(* C17: percent scaling.  With style percent the decimal the rounding starts
   from is a hundred times the number given, with the same sign, and has no
   leading zero beyond the units digit; 0.5 gives the digits 50.  With any
   other style it is the number given, digit for digit. *)
C17_PercentScaling ==
    Scaling =>
        IF newResult.value.style = "percent"
        THEN LET k == -Min(Converted.lower_magnitude, nonzero_magnitude_end(Converted))
             IN  /\ "percent" \in {steps[i] : i \in 1..Len(steps)}
                 /\ decimal.sign = Converted.sign
                 /\ Units(decimal, k) = 100 * Units(Converted, k)
                 /\ decimal.upper_magnitude = Max(decimal.magnitude, 0)
                 /\ decimal.upper_magnitude > 0 => Displayed(decimal).integer[1] # 0
                 /\ number = Number("Float", FALSE, <<0>>, <<5>>) =>
                        /\ Displayed(decimal).integer = <<5, 0>>
                        /\ Displayed(decimal).fraction = <<>>
        ELSE decimal = Converted /\ steps = <<>>

C17_Witness ==
    /\ Scaling /\ kwargs.style = "percent"
    /\ kwargs.maximum_fraction_digits = NoOptions
    /\ kwargs.minimum_fraction_digits = NoOptions
    /\ kwargs.minimum_integer_digits = NoOptions
    /\ number = Number("Float", FALSE, <<0>>, <<5>>)
    /\ Displayed(decimal).integer = <<5, 0>>

----------------------------------------------------------------------------
(* What NumberFormat.new did, read off its keywords and its result. *)

\* the digit keywords given, and those whose value new refuses
GivenDigits(kw) == {i \in 1..3 : kw[DigitKeys[i]].is_some}
RefusedDigits(kw) ==
    {i \in GivenDigits(kw) :
        kw[DigitKeys[i]].value < 0 \/ kw[DigitKeys[i]].value > 32767}

\* the keywords before the digit keywords are in order
DigitsReached(kw, e) ==
    /\ e # "no_provider"
    /\ kw.style \in Style \cup {None}
    /\ kw.style = "currency" => kw.currency # None

(* C15 as stated: a maximum below the minimum is refused.  Whenever both
   fraction keywords are given, each in range, and maximum_fraction_digits is
   smaller than minimum_fraction_digits, new returns an error and no
   formatter. *)
C15_MaxBelowMinRefused ==
    Called /\ {2, 3} \subseteq GivenDigits(kwargs) /\ RefusedDigits(kwargs) = {}
           /\ kwargs.maximum_fraction_digits.value < kwargs.minimum_fraction_digits.value
        => ~newResult.ok

(* C16: the range of a digit keyword.  Whenever a digit keyword is negative or
   greater than 32767, new returns an ArgumentError and no formatter, and when
   the keywords before the digit keywords are in order the error names the
   first such keyword; every formatter new returns holds each digit keyword
   as given, a value of 0..32767, or absent when it was not given. *)
C16_DigitRange ==
    Called =>
        /\ RefusedDigits(kwargs) # {} =>
              /\ ~newResult.ok /\ newResult.class = "ArgumentError"
              /\ DigitsReached(kwargs, env) =>
                    /\ newResult.key = DigitKeys[CHOOSE i \in RefusedDigits(kwargs) :
                                                    \A j \in RefusedDigits(kwargs) : i <= j]
                    /\ kwargs[newResult.key].value < 0 <=>
                           newResult.error = "must be non-negative"
        /\ newResult.ok =>
              \A i \in 1..3 :
                 /\ newResult.value[DigitKeys[i]] = kwargs[DigitKeys[i]]
                 /\ i \in GivenDigits(kwargs) =>
                       kwargs[DigitKeys[i]].value \in 0..32767

\* the ceiling itself passes, the next value is refused
C16_Witness ==
    /\ Called /\ env = "ok" /\ kwargs.style = "percent"
    /\ kwargs.minimum_integer_digits = Some(32767)
    /\ kwargs.minimum_fraction_digits = Some(32768)
    /\ ~newResult.ok /\ newResult.key = "minimum_fraction_digits"
    /\ newResult.error = "is too large (max 32767)"

----------------------------------------------------------------------------
(* DateTimeFormat.new with any keywords, as a step. *)

\* option sets with symbols that are no variant of their keyword's enum, and
\* with a keyword new does not know
LooseKwargs ==
    [date_style : {None, "long", "huge"}, time_style : {None, "short", "tiny"},
     year : {None, "numeric", "long"}, month : {None, "long", "2-digit"},
     day : {None, "numeric", "long"}, weekday : {None, "short", "numeric"},
     hour : {None, "two_digit", "short"}, minute : {None, "numeric", "long"},
     second : {None, "numeric", "long"},
     era : {None, "long"}]

\* DateTimeFormat.new(locale, **kw)
NewLoose ==
    /\ newResult = NotCalled
    /\ \E kw \in LooseKwargs, e \in Envs :
          /\ kwargs' = kw
          /\ env' = e
          /\ newResult' = new(kw, e)
    /\ UNCHANGED <<cvars, nvars, svars, pvars>>

NextValidation == NewLoose

SpecValidation == InitResolver /\ [][NextValidation]_vars

----------------------------------------------------------------------------
(* What DateTimeFormat.new did with keywords of any kind. *)

\* the symbols a keyword accepts
Accepted(key) ==
    CASE key = "date_style" -> DateStyle
      [] key = "time_style" -> TimeStyle
      [] key = "year" -> YearStyle
      [] key = "month" -> MonthStyle
      [] key = "day" -> DayStyle
      [] key = "weekday" -> WeekdayStyle
      [] key = "hour" -> HourStyle
      [] key = "minute" -> MinuteStyle
      [] key = "second" -> SecondStyle

RecognizedKeys == DOMAIN EmptyKwargs

\* the keywords given that new does not know
UnrecognizedKeys(kw) == {k \in DOMAIN kw \ RecognizedKeys : kw[k] # None}

\* the keywords given whose symbol their enum does not have
UnrecognizedValues(kw) ==
    {k \in DOMAIN kw \cap RecognizedKeys : kw[k] # None /\ kw[k] \notin Accepted(k)}

(* C18 as stated: unrecognized keys and values are rejected.  Whenever an
   option set holds a keyword new does not know, or a known keyword with a
   symbol its enum does not have, new returns an error and no formatter, and
   (a provider being there) the error names one of these keywords and, for a
   known keyword, the symbols it accepts. *)
C18_UnrecognizedRejected ==
    Called /\ UnrecognizedKeys(kwargs) \cup UnrecognizedValues(kwargs) # {} =>
        /\ ~newResult.ok
        /\ env # "no_provider" =>
              /\ "key" \in DOMAIN newResult
              /\ newResult.key \in UnrecognizedKeys(kwargs) \cup UnrecognizedValues(kwargs)
              /\ newResult.key \in RecognizedKeys =>
                    newResult.accepted = Accepted(newResult.key)

(* C19 as stated, for DateTimeFormat.new: validation comes before the
   provider.  Whenever the option set has a symbol its keyword does not
   accept, or a style key together with a component key, new returns the
   validation error whatever the provider is: also when no provider is given
   and none is configured, when the provider is no DataProvider and when it
   lacks the data. *)
C19_ValidationBeforeProvider ==
    Called /\ (UnrecognizedValues(kwargs) # {}
                  \/ (HasStyleKey(kwargs) /\ HasComponentKey(kwargs))) =>
        /\ ~newResult.ok
        /\ newResult.class = "ArgumentError"
        /\ newResult.error # "No provider specified and no default configured"

(* C20: one selection per formatter.  Every DateTimeFormat new returns has
   either a style and no component options, or component options that are not
   empty and no style; the hash of resolved_options has a style key or a
   component key, and never both. *)
C20_OneSelection ==
    Called /\ newResult.ok =>
        LET self == newResult.value
            styled == self.date_style # None \/ self.time_style # None
            keys == {p[1] : p \in resolved_options(self)}
            style_keys == keys \cap {"date_style", "time_style"}
            component_keys == keys \cap (DateKeys \cup TimeKeys)
        IN  /\ \/ styled /\ ~self.component_options.is_some
               \/ /\ ~styled /\ self.component_options.is_some
                  /\ ~is_empty(self.component_options.value)
            /\ (style_keys = {}) # (component_keys = {})
            /\ styled <=> style_keys # {}

C20_Witness ==
    /\ Called /\ newResult.ok
    /\ kwargs.date_style = None /\ kwargs.time_style = "short"
    /\ resolved_options(newResult.value) = {<<"time_style", "short">>}

----------------------------------------------------------------------------
(* DateTimeFormat.new with the hour cycle keywords. *)

\* keyword arguments with hour_cycle: and hour12:, "h24" being no HourCycle
HourKwargs ==
    [hour_cycle : Opt(HourCycle) \cup {"h24"}, hour12 : {None, "true", "false"},
     time_style : {None, "short"}, hour : {None, "numeric"}, month : {None, "long"}]

\* DateTimeFormat.new(locale, **kw), kw with the hour cycle keywords
NewHour ==
    /\ newResult = NotCalled
    /\ \E kw \in HourKwargs, e \in Envs :
          /\ kwargs' = kw
          /\ env' = e
          /\ newResult' = new(kw, e)
    /\ UNCHANGED <<cvars, nvars, svars, pvars>>

NextHour == NewHour

SpecHourCycle == InitResolver /\ [][NextHour]_vars

\* the hour cycle the claim expects of the keywords
ExpectedHourCycle(kw) ==
    IF kw.hour_cycle # None THEN kw.hour_cycle
    ELSE CASE kw.hour12 = "true" -> "h12"
           [] kw.hour12 = "false" -> "h23"
           [] OTHER -> None

\* the value resolved_options reports under a key, None when the key is absent
Reported(self, key) ==
    IF \E pair \in resolved_options(self) : pair[1] = key
    THEN (CHOOSE pair \in resolved_options(self) : pair[1] = key)[2]
    ELSE None

\* C25: a given hour_cycle is used whatever hour12 says; with hour12 alone,
\* true gives h12 and false gives h23; with neither no hour cycle is set; and
\* resolved_options reports the resolved value (no hour_cycle key when none is set).
C25_HourCycleTieBreak ==
    (newResult # NotCalled /\ newResult.ok) =>
        /\ newResult.value.hour_cycle = ExpectedHourCycle(kwargs)
        /\ Reported(newResult.value, "hour_cycle") = ExpectedHourCycle(kwargs)

C25_Witness ==
    /\ newResult # NotCalled /\ newResult.ok
    /\ kwargs.hour_cycle = "h11" /\ kwargs.hour12 = "true"
    /\ newResult.value.hour_cycle = "h11"
    /\ <<"hour_cycle", "h11">> \in resolved_options(newResult.value)

C25_WitnessHour12 ==
    /\ newResult # NotCalled /\ newResult.ok
    /\ kwargs.hour_cycle = None /\ kwargs.hour12 = "false"
    /\ Reported(newResult.value, "hour_cycle") = "h23"

----------------------------------------------------------------------------
(* Several formatters and several callers: every DateTimeFormat.new call keeps
   what it returned, and every format / format_to_parts call has its own locals. *)

\* at most MaxFormatters calls of DateTimeFormat.new are followed
MaxFormatters == 2
\* the renderer makes at most MaxCallOps calls (write_str, with_part) per call
MaxCallOps == 2

SessionKwargs ==
    {[date_style |-> "long"], [hour12 |-> "true"], [hour |-> "numeric", hour_cycle |-> "h23"]}

SessionEnvs == {"ok", "no_data"}

\* what the renderer writes in one write_str
SessionStrs == {<<"1", "2">>}

\* one DateTimeFormat.new call: its keywords, what it found, what it returned
Made(kw, e, r) == [kwargs |-> kw, env |-> e, result |-> r]

\* a DateTimeFormat.new that remembers the hour cycle of the formatter made before
Session_new_Sticky ==
    /\ Len(formatters) < MaxFormatters
    /\ \E kw \in SessionKwargs, e \in SessionEnvs :
          LET last == IF formatters = <<>> THEN NotCalled
                      ELSE formatters[Len(formatters)].result
              r == new(kw, e)
          IN  formatters' = Append(formatters, Made(kw, e,
                  IF r.ok /\ last.ok /\ r.value.hour_cycle = None
                  THEN [r EXCEPT !.value.hour_cycle = last.value.hour_cycle]
                  ELSE r))
    /\ UNCHANGED <<cvars, rvars, nvars, callers, pvars>>

\* DateTimeFormat.new(locale, **kw): it reads its arguments and nothing else
Session_new ==
    /\ Len(formatters) < MaxFormatters
    /\ \E kw \in SessionKwargs, e \in SessionEnvs :
          formatters' = Append(formatters, Made(kw, e, new(kw, e)))
    /\ UNCHANGED <<cvars, rvars, nvars, callers, pvars>>

\* the formatters a caller can hold: the new calls that returned a DateTimeFormat
Formatters == {f \in 1..Len(formatters) : formatters[f].result.ok}

\* PartsCollector::new()
PartsCollector_new == [parts |-> <<>>, current_buffer |-> <<>>, part_stack |-> <<>>]

\* a caller in its call of `method` on formatter f
Calling(method, pc_, f, collector, hist_, result_) ==
    [pc |-> pc_, method |-> method, self |-> f, collector |-> collector,
     hist |-> hist_, result |-> result_]

CanCall(c) == callers[c].pc \in {"idle", "done", "error"}

\* format: the renderer writes into a String, no collector is made
Call_format(c, f) ==
    /\ CanCall(c)
    /\ \E s \in SessionStrs :
          callers' = [callers EXCEPT ![c] = Calling("format", "done", f, <<>>, <<>>, s)]
    /\ UNCHANGED <<cvars, rvars, nvars, formatters, pvars>>

\* a format_to_parts that takes up the collector of a call in progress
Call_format_to_parts_Shared(c, f) ==
    /\ CanCall(c)
    /\ LET busy == {d \in Callers : callers[d].pc = "render"}
       IN  callers' = [callers EXCEPT ![c] =
               Calling("format_to_parts", "render", f,
                       IF busy = {} THEN PartsCollector_new
                       ELSE callers[CHOOSE d \in busy : TRUE].collector,
                       <<>>, <<>>)]
    /\ UNCHANGED <<cvars, rvars, nvars, formatters, pvars>>

\* format_to_parts up to write_to_parts: a collector of its own
Call_format_to_parts(c, f) ==
    /\ CanCall(c)
    /\ callers' = [callers EXCEPT ![c] =
           Calling("format_to_parts", "render", f, PartsCollector_new, <<>>, <<>>)]
    /\ UNCHANGED <<cvars, rvars, nvars, formatters, pvars>>

CallRendering(c) ==
    /\ callers[c].pc = "render"
    /\ Len(SelectSeq(callers[c].hist, IsCall)) < MaxCallOps

\* write_str on the collector of caller c
Call_write_str(c, s) ==
    /\ CallRendering(c)
    /\ callers' = [callers EXCEPT
           ![c].collector.current_buffer = @ \o s,
           ![c].hist = Append(@, Ev("write", s, LITERAL))]
    /\ UNCHANGED <<cvars, rvars, nvars, formatters, pvars>>

\* with_part on the collector of caller c, up to the call of the writing function
Call_with_part_enter(c, part) ==
    /\ CallRendering(c)
    /\ LET col == callers[c].collector
       IN  callers' = [callers EXCEPT
               ![c].collector =
                   [parts |-> EnterParts(col.parts, col.current_buffer, col.part_stack),
                    current_buffer |-> EnterBuffer(col.current_buffer, col.part_stack),
                    part_stack |-> Append(col.part_stack, part)],
               ![c].hist = Append(@, Ev("enter", <<>>, part))]
    /\ UNCHANGED <<cvars, rvars, nvars, formatters, pvars>>

\* with_part on the collector of caller c, after the writing function returned Ok
Call_with_part_exit(c) ==
    /\ callers[c].pc = "render"
    /\ callers[c].collector.part_stack # <<>>
    /\ LET col == callers[c].collector
           part == col.part_stack[Len(col.part_stack)]
           stack == Pop(col.part_stack)
       IN  callers' = [callers EXCEPT
               ![c].collector =
                   [parts |-> ExitParts(col.parts, col.current_buffer, stack, part),
                    current_buffer |-> ExitBuffer(col.current_buffer, stack),
                    part_stack |-> stack],
               ![c].hist = Append(@, Ev("exit", <<>>, part))]
    /\ UNCHANGED <<cvars, rvars, nvars, formatters, pvars>>

\* a writing function returns Err: format_to_parts returns it, the collector is dropped
Call_fail(c) ==
    /\ callers[c].pc = "render"
    /\ callers' = [callers EXCEPT ![c].pc = "error", ![c].collector = <<>>]
    /\ UNCHANGED <<cvars, rvars, nvars, formatters, pvars>>

\* write_to_parts returned Ok: into_parts and parts_to_ruby_array, the collector is consumed
Call_return(c) ==
    /\ callers[c].pc = "render"
    /\ callers[c].collector.part_stack = <<>>
    /\ LET col == callers[c].collector
       IN  callers' = [callers EXCEPT
               ![c].pc = "done",
               ![c].collector = <<>>,
               ![c].result = parts_to_ruby_array(into_parts(col.parts, col.current_buffer))]
    /\ UNCHANGED <<cvars, rvars, nvars, formatters, pvars>>

\* the steps of caller c
Call(c) ==
    \/ \E f \in Formatters : Call_format(c, f)
    \/ \E f \in Formatters : Call_format_to_parts(c, f)
    \/ \E s \in SessionStrs : Call_write_str(c, s)
    \/ \E part \in RenderParts : Call_with_part_enter(c, part)
    \/ Call_with_part_exit(c)
    \/ Call_fail(c)
    \/ Call_return(c)

\* formatters are made while one caller formats
NextSession ==
    \/ Session_new
    \/ Call("a")

SpecSession == InitResolver /\ [][NextSession]_vars

\* one formatter is made, then the callers format with it in any interleaving
NextInterleaving ==
    \/ formatters = <<>> /\ Session_new
    \/ \E c \in Callers : Call(c)

SpecInterleaving == InitResolver /\ [][NextInterleaving]_vars

----------------------------------------------------------------------------
(* Claims about several constructions and several calls. *)

C21_WitnessAfterOther ==
    /\ Len(formatters) = 2
    /\ formatters[1].kwargs = [hour |-> "numeric", hour_cycle |-> "h23"]
    /\ formatters[2].kwargs = [date_style |-> "long"]
    /\ formatters[1].result.ok /\ formatters[2].result.ok
    /\ formatters[2].result.value.hour_cycle = None

\* the collector after the calls h[i..] of the renderer, from the collector col
RECURSIVE Replay(_, _, _)
Replay(h, i, col) ==
    IF i > Len(h) THEN col
    ELSE LET e == h[i]
             next ==
                 CASE e.op = "write" ->
                        [col EXCEPT !.current_buffer = @ \o e.s]
                   [] e.op = "enter" ->
                        [parts |-> EnterParts(col.parts, col.current_buffer, col.part_stack),
                         current_buffer |-> EnterBuffer(col.current_buffer, col.part_stack),
                         part_stack |-> Append(col.part_stack, e.part)]
                   [] e.op = "exit" ->
                        [parts |-> ExitParts(col.parts, col.current_buffer,
                                             Pop(col.part_stack), e.part),
                         current_buffer |-> ExitBuffer(col.current_buffer, Pop(col.part_stack)),
                         part_stack |-> Pop(col.part_stack)]
         IN  Replay(h, i + 1, next)

\* what format_to_parts returns for the renderer's calls h when nothing else runs
RunAlone(h) ==
    LET col == Replay(h, 1, PartsCollector_new)
    IN  parts_to_ruby_array(into_parts(col.parts, col.current_buffer))

\* C22: every format_to_parts call starts from a collector of its own with no
\* spans, an empty buffer and an empty stack, holds it only while it runs, and
\* returns the spans its own renderer calls give when run alone, however the
\* calls on one formatter interleave; no format or format_to_parts call changes
\* what the formatter stores.
C22_OwnCollector ==
    /\ \A c \in Callers :
          /\ (callers[c].pc = "render" /\ callers[c].hist = <<>>)
                => callers[c].collector = PartsCollector_new
          /\ callers[c].pc = "render"
                => callers[c].collector = Replay(callers[c].hist, 1, PartsCollector_new)
          /\ callers[c].pc # "render" => DOMAIN callers[c].collector = {}
          /\ (callers[c].pc = "done" /\ callers[c].method = "format_to_parts")
                => callers[c].result = RunAlone(callers[c].hist)
    /\ \A f \in 1..Len(formatters) :
          formatters[f].result = new(formatters[f].kwargs, formatters[f].env)

\* two calls on one formatter in progress at once, each with its own content
C22_Witness ==
    /\ callers["a"].pc = "render" /\ callers["b"].pc = "render"
    /\ callers["a"].self = callers["b"].self
    /\ callers["a"].collector.part_stack = <<DAY>>
    /\ callers["a"].collector.current_buffer = <<"1", "2">>
    /\ callers["b"].collector.part_stack = <<>>
    /\ callers["b"].collector.parts = <<Span(<<"1", "2">>, INTEGER)>>

\* two calls on one formatter have returned different arrays
C22_WitnessReturned ==
    /\ callers["a"].pc = "done" /\ callers["b"].pc = "done"
    /\ callers["a"].method = "format_to_parts" /\ callers["b"].method = "format_to_parts"
    /\ callers["a"].self = callers["b"].self
    /\ callers["a"].result = <<FormattedPart("day", <<"1", "2">>)>>
    /\ callers["b"].result = <<FormattedPart("literal", <<"1", "2">>)>>

----------------------------------------------------------------------------
(* Claims about single steps of the collector. *)

\* the step is a call or return of the renderer of the kind op
Did(op) ==
    /\ Len(hist') = Len(hist) + 1
    /\ SubSeq(hist', 1, Len(hist)) = hist
    /\ hist'[Len(hist')].op = op

IsPrefix(s, t) == Len(s) <= Len(t) /\ SubSeq(t, 1, Len(s)) = s

\* C23: while a region is open, write_str, the enter of a nested region and
\* the exit of a nested region leave the spans as they are (write_str only
\* extends the buffer, enter and exit only change the depth by one); a span is
\* added only by an enter at depth 0, by an exit that returns to depth 0, or
\* by the flush at the end of the render, and then exactly one is added.
C23_FlatBuffering ==
    [][/\ (Did("write") /\ part_stack # <<>>)
            => /\ parts' = parts
               /\ part_stack' = part_stack
               /\ IsPrefix(current_buffer, current_buffer')
       /\ (Did("enter") /\ part_stack # <<>>)
            => /\ parts' = parts
               /\ current_buffer' = current_buffer
               /\ Len(part_stack') = Len(part_stack) + 1
       /\ (Did("exit") /\ part_stack' # <<>>)
            => /\ parts' = parts
               /\ current_buffer' = current_buffer
               /\ Len(part_stack') = Len(part_stack) - 1
       /\ (pc = "render" /\ parts' # parts)
            => /\ \/ Did("enter") /\ part_stack = <<>>
                  \/ Did("exit") /\ part_stack' = <<>>
                  \/ pc' = "done"
               /\ Len(parts') = Len(parts) + 1
               /\ SubSeq(parts', 1, Len(parts)) = parts
      ]_vars

\* text written two regions deep is pending while earlier spans stand
C23_Witness ==
    /\ pc = "render"
    /\ Len(part_stack) = 2
    /\ parts = <<Span(<<"a">>, LITERAL)>>
    /\ current_buffer = <<"1", "2">>
    /\ hist[Len(hist)].op = "write"

\* a nested region has been left with its text still pending
C23_WitnessNestedExit ==
    /\ pc = "render"
    /\ Len(hist) > 0 /\ hist[Len(hist)].op = "exit"
    /\ Len(part_stack) = 1
    /\ current_buffer # <<>>
    /\ parts = <<>>

\* C27: when a with_part call returns, with Ok or with Err, part_stack is as
\* deep as it was when the call was entered, that is as deep as the with_part
\* calls that have not returned yet; a top-level call leaves it empty.
C27_StackRestored ==
    [][(Did("exit") \/ Did("fail")) => Len(part_stack') = Len(calls')]_vars

\* C28: no span has empty text, in the collector and in the returned array,
\* whatever was written (empty writes and regions without text included), and
\* the spans returned are as many as the runs of text that are not empty.
C28_NoEmptySpan ==
    /\ \A i \in 1..Len(parts) : parts[i].text # <<>>
    /\ pc = "done" =>
          /\ \A i \in 1..Len(result) : result[i].value # <<>>
          /\ Len(result) = Len(SelectSeq(AllSegments(hist), HasText))

\* a region in which nothing is written and an empty write give no span
C28_Witness ==
    /\ pc = "done"
    /\ hist = <<Ev("enter", <<>>, DAY), Ev("exit", <<>>, DAY),
                Ev("write", <<>>, LITERAL), Ev("write", <<"a">>, LITERAL)>>
    /\ result = <<FormattedPart("literal", <<"a">>)>>

----------------------------------------------------------------------------
(* Further claims about DateTimeFormat.new. *)

\* new was called with time components and nothing else
TimeOnlyCall ==
    /\ Called /\ env = "ok"
    /\ ~HasStyleKey(kwargs)
    /\ RequestedDate(kwargs) = {} /\ RequestedTime(kwargs) # {}

\* C24: when only time components (hour, minute, second) are given, new
\* selects the time field set with the length medium.
C24_TimeOnlyMedium ==
    TimeOnlyCall => /\ newResult.ok
                    /\ newResult.value.inner = FieldSet("Time", "T", "medium")

\* C26: new never reaches an unreachable arm: it returns a formatter or an
\* error and never panics, it resolves styles only when a style is given and
\* evaluates the date-only table only when a date component is present; an
\* option set without a style key resolves (to the components given, or to
\* the default ones) and is not refused for the lack of a style.
C26_UnreachableArms ==
    Called =>
        /\ newResult # Panic
        /\ newResult.ok =>
              IF newResult.value.component_options.is_some
              THEN LET opts == newResult.value.component_options.value
                   IN  /\ has_date_components(opts) \/ has_time_components(opts)
                       /\ (~has_time_components(opts)) =>
                              FirstArm(opts.year # None, opts.month # None,
                                       opts.day # None, opts.weekday # None).variant
                                  # "unreachable"
              ELSE newResult.value.date_style # None \/ newResult.value.time_style # None
        /\ (~HasStyleKey(kwargs) /\ env = "ok") => newResult.ok

\* no option at all: the default components are resolved by the date-only table
C26_Witness ==
    /\ Called /\ env = "ok"
    /\ kwargs = EmptyKwargs
    /\ newResult.ok
    /\ newResult.value.component_options = Some(DefaultComponentOptions)
    /\ newResult.value.inner.name = "YMD"

\* the option set with every given style replaced by the first of its kind:
\* numeric for numbers, long for text
Canon(kw) ==
    [k \in DOMAIN kw |->
        IF k \in {"year", "day", "hour", "minute", "second"}
        THEN (IF kw[k] = None THEN None ELSE "numeric")
        ELSE IF k = "month"
        THEN (IF kw[k] = None THEN None
              ELSE IF kw[k] \in {"numeric", "two_digit"} THEN "numeric" ELSE "long")
        ELSE IF k = "weekday"
        THEN (IF kw[k] = None THEN None ELSE "long")
        ELSE kw[k]]

\* C29: the field set and its length depend only on which components are
\* present and on whether the month or the weekday is text: an option set
\* resolves to the field set and length of the option set with numeric in
\* place of two_digit and long in place of short and narrow, while
\* resolved_options gives back every component style as it was given.
C29_StyleValueIndependent ==
    (Called /\ HasComponentKey(kwargs)) =>
        LET canon == new(Canon(kwargs), env)
        IN  /\ canon.ok = newResult.ok
            /\ newResult.ok =>
                  /\ newResult.value.inner = canon.value.inner
                  /\ \A k \in DateKeys \cup TimeKeys :
                        kwargs[k] # None => <<k, kwargs[k]>> \in resolved_options(newResult.value)

C29_Witness ==
    /\ Called /\ newResult.ok
    /\ kwargs.year = "two_digit" /\ kwargs.month = "narrow" /\ kwargs.minute = "two_digit"
    /\ newResult.value.inner = FieldSet("DateTime", "YMDT", "long")
    /\ new(Canon(kwargs), env).value.inner = FieldSet("DateTime", "YMDT", "long")
    /\ <<"month", "narrow">> \in resolved_options(newResult.value)
    /\ <<"year", "two_digit">> \in resolved_options(newResult.value)

----------------------------------------------------------------------------
(* PluralRules#select.  A 64-bit word is kept as its four 16-bit limbs, the
   most significant first; an i64 is the word of its two's complement. *)

LIMB == 65536

\* the limbs the model tries: the ends of the range and the sign boundary
Limbs == {0, 1, LIMB \div 2 - 1, LIMB \div 2, LIMB - 1}

Word == [1..4 -> Limbs]

\* a Ruby Integer that fits an i64, by the word of the i64
Integer(bits) == [class |-> "Integer", fits |-> TRUE, bits |-> bits]
\* a Ruby Integer outside the range of i64
Bignum == [class |-> "Integer", fits |-> FALSE, bits |-> <<>>]

IsNegative(bits) == bits[1] >= LIMB \div 2

\* the word plus one, modulo 2^64
RECURSIVE Increment(_, _)
Increment(bits, i) ==
    IF i = 0 THEN bits
    ELSE IF bits[i] = LIMB - 1 THEN Increment([bits EXCEPT ![i] = 0], i - 1)
    ELSE [bits EXCEPT ![i] = @ + 1]

\* |n| as an unsigned 64-bit word, n the i64 of the word bits
Magnitude(bits) ==
    IF IsNegative(bits)
    THEN Increment([i \in 1..4 |-> LIMB - 1 - bits[i]], 4)
    ELSE bits

\* the widths of usize the extension is built for
PointerWidths == {32, 64}

\* `n as usize`, n an i64: the low `width` bits of the word of n, as they are
as_usize(bits, width) ==
    IF width = 64 THEN bits
    ELSE [i \in 1..4 |-> IF i <= 2 THEN 0 ELSE bits[i]]

\* the operands of category_for
Usize(bits, width) == [type |-> "usize", width |-> width, bits |-> bits]
FixedDecimal(fd) == [type |-> "Decimal", value |-> fd]

\* category_for of the cardinal rules of English: one for the integer 1
\* written without fraction digits, other for everything else
category_for(op) ==
    IF op.type = "usize"
    THEN (IF op.bits = <<0, 0, 0, 1>> THEN "one" ELSE "other")
    ELSE (IF op.value.digits = <<1>> /\ op.value.magnitude = 0
             /\ op.value.lower_magnitude = 0
          THEN "one" ELSE "other")

\* the arguments of select the model tries
SelectNumbers ==
    {Integer(bits) : bits \in Word}
    \cup {Bignum, NaN, Number("String", FALSE, <<>>, <<>>)}
    \cup {Number("Float", neg, <<i>>, f) : neg \in BOOLEAN, i \in {0, 1}, f \in {<<>>, <<5>>}}

\* PluralRules#select(number) on a build with usize of `width` bits: the
\* operand handed to category_for (none when select returns an error before)
\* and what select returns
select(n, width) ==
    IF n.class = "Float"
    THEN IF n.int = <<>>
         THEN [operand |-> <<>>,
               result |-> Err("ArgumentError", "Failed to convert to Decimal")]
         ELSE LET fd == FixedDecimal(from_str(n.neg, n.int, n.frac))
              IN  [operand |-> fd, result |-> Ok(category_for(fd))]
    ELSE IF n.class = "Integer"
    THEN IF ~n.fits
         THEN [operand |-> <<>>,
               result |-> Err("RangeError", "bignum too big to convert into i64")]
         ELSE LET u == Usize(as_usize(n.bits, width), width)
              IN  [operand |-> u, result |-> Ok(category_for(u))]
    ELSE [operand |-> <<>>,
          result |-> Err("TypeError", "number must be an Integer or Float")]

\* one call of select is followed: it takes &self and keeps nothing
Select ==
    /\ select_number = <<>>
    /\ \E n \in SelectNumbers, width \in PointerWidths :
          /\ select_number' = n
          /\ operand' = select(n, width).operand
          /\ category' = select(n, width).result
    /\ UNCHANGED <<cvars, rvars, nvars, svars>>

NextPlural == Select

SpecPlural == InitResolver /\ [][NextPlural]_vars

\* select was called with an Integer of the i64 range
SelectedInteger ==
    /\ DOMAIN select_number # {}
    /\ select_number.class = "Integer" /\ select_number.fits

\* C30: for every Integer n of the i64 range, negative ones included, the
\* unsigned operand select hands to the plural-rule engine is |n|: the
\* conversion to a 64-bit usize does not wrap around to n mod 2^64.
C30_OperandIsMagnitude ==
    (SelectedInteger /\ operand.width = 64) =>
        /\ operand.type = "usize"
        /\ operand.bits = Magnitude(select_number.bits)

\* select(-1) on a 64-bit build hands over 2^64 - 1
C30_MinusOne ==
    /\ SelectedInteger /\ operand.width = 64
    /\ select_number.bits = <<LIMB - 1, LIMB - 1, LIMB - 1, LIMB - 1>>
    /\ Magnitude(select_number.bits) = <<0, 0, 0, 1>>
    /\ operand.bits = <<LIMB - 1, LIMB - 1, LIMB - 1, LIMB - 1>>
    /\ category = Ok("other")

\* a non-negative Integer is handed over as it is
C30_NonNegative ==
    (SelectedInteger /\ operand.width = 64 /\ ~IsNegative(select_number.bits)) =>
        operand.bits = Magnitude(select_number.bits)

====
